---- MODULE Spec2Model ----
(***************************************************************************)
(* Queue processing and streaming-IPC orchestration of the Cleanse app.    *)
(*                                                                         *)
(* The renderer part follows src/renderer/src/App.tsx (reducer, MainApp)   *)
(* and src/renderer/src/hooks/useQueueProcessor.ts; the worker channel     *)
(* follows the python bridge (fetchBackendStreaming).                      *)
(***************************************************************************)
EXTENDS Integers, Sequences, FiniteSets, TLC

\* ------------------------------------------------------------------------
\* Bounds of the model
\* ------------------------------------------------------------------------
\* number of song ids generateId() hands out in one run
MaxSongs == 2
\* number of files one ADD_SONGS carries
MaxBatch == 2
\* metadata lookups in flight for one song
MaxLookups == 2
\* invocations of handleExportAll that have not returned yet
MaxExportRuns == 1
\* the same two bounds in the specification of overlapping export invocations
RaceSongs == 3
RaceExportRuns == 2
\* files of a run of the specification of the detail panel
PreviewSongs == 1
\* values Date.now() hands to generationRequestRef
MaxTokens == 2
\* words of a transcript, manual ones included
MaxWords == 2
\* timeoutMs of a streaming call, in ticks of the clock
IdleTimeout == 2
\* the ticks a streaming call is followed for
MaxElapsed == 7
\* pieces of one line the read loop keeps in its buffer
MaxLine == 2
\* ticks pollHealth keeps polling for (30 s); one tick is one poll interval
StartupTimeout == 2
\* ticks between SIGTERM and the forced kill (5 s)
GracePeriod == 2
\* calls of stopPythonBackend in one run
MaxStops == 2
\* restarts of one debounce timer that are told apart
MaxBurst == 1
\* ticks until the abort timer of one attempt of a plain request fires (600 s)
RequestTimeout == 2
\* ticks a plain request sleeps before it retries (2 s)
BackoffDelay == 2
\* ticks describeBackendError waits before it tests the worker (500 ms)
DescribeDelay == 2

\* ------------------------------------------------------------------------
\* Values
\* ------------------------------------------------------------------------
\* JavaScript null for string-valued fields
null == "null"
\* JavaScript null for an id-valued field (ids are 1, 2, ...)
NoId == 0

Max(a, b) == IF a >= b THEN a ELSE b

\* every id generateId() can hand out, every slot of an export invocation
AllIds == 1..Max(MaxSongs, RaceSongs)
AllRuns == 1..Max(MaxExportRuns, RaceExportRuns)

ActiveStatuses == {"fetching_lyrics", "separating", "transcribing"}

\* transcription results the worker may return (words sorted by start)
W(word, start, prof) == [word |-> word, start |-> start, is_profanity |-> prof, censor_type |-> null]
TranscriptionResults == { <<W("a", 1, TRUE), W("b", 3, FALSE)>>, <<W("c", 2, FALSE)>> }

\* metadata the lookup may return: with artist and title, or all fields null
MetadataResults == {"tagged", "untagged"}

\* ------------------------------------------------------------------------
\* State
\* ------------------------------------------------------------------------
VARIABLES
  state,            \* BatchAppState held by useReducer
  nextId,           \* next id generateId() returns
  isProcessingRef,  \* useQueueProcessor: isProcessingRef.current
  proc,             \* the running processSong call, if any
  lookups,          \* metadata lookups in flight: song id -> count
  exportingRef,     \* MainApp: exportingRef.current
  exportRuns,       \* invocations of handleExportAll that have not returned
  generationRequestRef, \* MainApp: generationRequestRef.current
  debounce,         \* the pending timer of the preview effect and its closure
  previews,         \* previewAudio calls that have not settled
  hist,             \* history of the run, read by the properties only
  call,             \* main process: one invocation of fetchBackendStreaming
  clock,            \* time as the worker sees it, read by the properties only
  plain,            \* main process: one invocation of fetchBackend
  pythonProcess,    \* main process: the handle of the worker and whether it has exited
  bridge            \* main process: isReady, logStream and the course of start and stop

appVars == <<state, nextId, isProcessingRef, proc, lookups, exportingRef, exportRuns,
             generationRequestRef, debounce, previews, hist>>

streamVars == <<call, clock>>

workerVars == <<pythonProcess, bridge>>

fetchVars == <<plain, workerVars>>

vars == <<appVars, streamVars, fetchVars>>

\* ------------------------------------------------------------------------
\* Helpers over the song list
\* ------------------------------------------------------------------------
Ids(songs) == { songs[i].id : i \in DOMAIN songs }

HasSong(songs, id) == \E i \in DOMAIN songs : songs[i].id = id

\* songs.find((s) => s.id === id), for an id that is present
FindSong(songs, id) == songs[CHOOSE i \in DOMAIN songs : songs[i].id = id]

\* songs.map((s) => s.id === id ? f(s) : s)
MapSong(songs, id, f(_)) == [i \in DOMAIN songs |-> IF songs[i].id = id THEN f(songs[i]) ELSE songs[i]]

\* array.filter(keep)
Filter(seq, keep(_)) == SelectSeq(seq, keep)

Includes(seq, x) == \E i \in DOMAIN seq : seq[i] = x

\* Array.prototype.sort((a, b) => a.start - b.start): stable, ascending
RECURSIVE InsertByStart(_, _)
InsertByStart(sorted, w) ==
  IF sorted = <<>> THEN <<w>>
  ELSE IF Head(sorted).start <= w.start THEN <<Head(sorted)>> \o InsertByStart(Tail(sorted), w)
       ELSE <<w>> \o sorted

RECURSIVE SortByStart(_)
SortByStart(words) ==
  IF words = <<>> THEN <<>>
  ELSE InsertByStart(SortByStart(SubSeq(words, 1, Len(words) - 1)), words[Len(words)])

\* ------------------------------------------------------------------------
\* The reducer, one operator per case
\* ------------------------------------------------------------------------
NewSong(id, censorType) ==
  [ id |-> id, status |-> "pending", words |-> <<>>, duration |-> 0, language |-> "",
    vocalsPath |-> null, accompanimentPath |-> null,
    separationProgress |-> null, transcriptionProgress |-> null,
    censoredFilePath |-> null, previewFilePath |-> null, isGeneratingPreview |-> FALSE,
    defaultCensorType |-> censorType, errorMessage |-> null,
    metadata |-> null, lyrics |-> null ]

ADD_SONGS(st, action) ==
  [st EXCEPT !.songs = st.songs \o [i \in 1..Len(action.ids) |-> NewSong(action.ids[i], st.globalDefaultCensorType)]]

REMOVE_SONG(st, action) ==
  [st EXCEPT !.songs = Filter(st.songs, LAMBDA s : s.id # action.id),
             !.processingQueue = Filter(st.processingQueue, LAMBDA id : id # action.id),
             !.expandedSongId = IF st.expandedSongId = action.id THEN NoId ELSE st.expandedSongId]

CLEAR_ALL_SONGS(st, action) ==
  [st EXCEPT !.songs = <<>>, !.processingQueue = <<>>,
             !.currentlyProcessingId = NoId, !.expandedSongId = NoId]

SET_EXPANDED_SONG(st, action) == [st EXCEPT !.expandedSongId = action.id]

START_PROCESSING(st, action) == [st EXCEPT !.currentlyProcessingId = action.id]

\* a SET_SONG_METADATA that appends the id whenever the item exists
SET_SONG_METADATA_Always(st, action) ==
  [st EXCEPT !.songs = MapSong(st.songs, action.id, LAMBDA s : [s EXCEPT !.metadata = action.metadata]),
             !.processingQueue = IF HasSong(st.songs, action.id) THEN Append(st.processingQueue, action.id)
                                 ELSE st.processingQueue]

SET_SONG_METADATA(st, action) ==
  LET shouldAddToQueue == /\ HasSong(st.songs, action.id)
                          /\ FindSong(st.songs, action.id).status = "pending"
                          /\ ~Includes(st.processingQueue, action.id)
  IN [st EXCEPT !.songs = MapSong(st.songs, action.id, LAMBDA s : [s EXCEPT !.metadata = action.metadata]),
                !.processingQueue = IF shouldAddToQueue THEN Append(st.processingQueue, action.id)
                                    ELSE st.processingQueue]

SET_SONG_LYRICS(st, action) ==
  [st EXCEPT !.songs = MapSong(st.songs, action.id, LAMBDA s : [s EXCEPT !.lyrics = action.lyrics])]

START_FETCHING_LYRICS(st, action) ==
  [st EXCEPT !.songs = MapSong(st.songs, action.id, LAMBDA s : [s EXCEPT !.status = "fetching_lyrics"])]

START_TRANSCRIPTION(st, action) ==
  [st EXCEPT !.songs = MapSong(st.songs, action.id,
      LAMBDA s : [s EXCEPT !.status = "transcribing", !.errorMessage = null, !.transcriptionProgress = null])]

TRANSCRIPTION_PROGRESS(st, action) ==
  [st EXCEPT !.songs = MapSong(st.songs, action.id, LAMBDA s : [s EXCEPT !.transcriptionProgress = action.progress])]

TRANSCRIPTION_COMPLETE(st, action) ==
  [st EXCEPT !.songs = MapSong(st.songs, action.id,
      LAMBDA s : [s EXCEPT !.words = action.words, !.duration = action.duration,
                           !.language = action.language, !.transcriptionProgress = null])]

START_SEPARATING(st, action) ==
  [st EXCEPT !.songs = MapSong(st.songs, action.id,
      LAMBDA s : [s EXCEPT !.status = "separating", !.separationProgress = null])]

SEPARATION_PROGRESS(st, action) ==
  [st EXCEPT !.songs = MapSong(st.songs, action.id, LAMBDA s : [s EXCEPT !.separationProgress = action.progress])]

\* a SEPARATION_COMPLETE that stores the vocals stem only
SEPARATION_COMPLETE_VocalsOnly(st, action) ==
  [st EXCEPT !.songs = MapSong(st.songs, action.id,
      LAMBDA s : [s EXCEPT !.vocalsPath = action.vocalsPath, !.separationProgress = null])]

SEPARATION_COMPLETE(st, action) ==
  [st EXCEPT !.songs = MapSong(st.songs, action.id,
      LAMBDA s : [s EXCEPT !.vocalsPath = action.vocalsPath,
                           !.accompanimentPath = action.accompanimentPath,
                           !.separationProgress = null])]

SET_SONG_READY(st, action) ==
  [st EXCEPT !.songs = MapSong(st.songs, action.id, LAMBDA s : [s EXCEPT !.status = "ready"])]

\* a SET_SONG_ERROR that resets the transcript of the item
SET_SONG_ERROR_ClearsWords(st, action) ==
  [st EXCEPT !.songs = MapSong(st.songs, action.id,
      LAMBDA s : [s EXCEPT !.status = "error", !.errorMessage = action.message,
                           !.words = <<>>, !.duration = 0, !.language = ""])]

\* a SET_SONG_ERROR that fails the whole batch
SET_SONG_ERROR_Batch(st, action) ==
  [st EXCEPT !.songs = [i \in DOMAIN st.songs |->
      [st.songs[i] EXCEPT !.status = "error", !.errorMessage = action.message]]]

SET_SONG_ERROR(st, action) ==
  [st EXCEPT !.songs = MapSong(st.songs, action.id,
      LAMBDA s : [s EXCEPT !.status = "error", !.errorMessage = action.message])]

PROCESSING_COMPLETE(st, action) ==
  [st EXCEPT !.currentlyProcessingId = NoId,
             !.processingQueue = Filter(st.processingQueue, LAMBDA id : id # action.id)]

ADD_MANUAL_WORD(st, action) ==
  [st EXCEPT !.songs = MapSong(st.songs, action.songId,
      LAMBDA s : [s EXCEPT !.words = SortByStart(Append(s.words, action.word)),
                           !.censoredFilePath = null, !.previewFilePath = null])]

TOGGLE_PROFANITY(st, action) ==
  [st EXCEPT !.songs = MapSong(st.songs, action.songId,
      LAMBDA s : [s EXCEPT !.words = [i \in DOMAIN s.words |->
                                        IF i = action.wordIndex
                                        THEN [s.words[i] EXCEPT !.is_profanity = ~s.words[i].is_profanity]
                                        ELSE s.words[i]],
                           !.censoredFilePath = null, !.previewFilePath = null])]

SET_WORD_CENSOR_TYPE(st, action) ==
  [st EXCEPT !.songs = MapSong(st.songs, action.songId,
      LAMBDA s : [s EXCEPT !.words = [i \in DOMAIN s.words |->
                                        IF i = action.wordIndex
                                        THEN [s.words[i] EXCEPT !.censor_type = action.censorType]
                                        ELSE s.words[i]],
                           !.censoredFilePath = null, !.previewFilePath = null])]

SET_SONG_CENSOR_TYPE(st, action) ==
  [st EXCEPT !.songs = MapSong(st.songs, action.songId,
      LAMBDA s : [s EXCEPT !.defaultCensorType = action.censorType,
                           !.censoredFilePath = null, !.previewFilePath = null])]

START_PREVIEW_GENERATION(st, action) ==
  [st EXCEPT !.songs = MapSong(st.songs, action.id, LAMBDA s : [s EXCEPT !.isGeneratingPreview = TRUE])]

PREVIEW_GENERATED(st, action) ==
  [st EXCEPT !.songs = MapSong(st.songs, action.id,
      LAMBDA s : [s EXCEPT !.previewFilePath = action.previewPath, !.isGeneratingPreview = FALSE])]

PREVIEW_GENERATION_FAILED(st, action) ==
  [st EXCEPT !.songs = MapSong(st.songs, action.id,
      LAMBDA s : [s EXCEPT !.isGeneratingPreview = FALSE, !.errorMessage = action.error])]

CLEAR_PREVIEW(st, action) ==
  [st EXCEPT !.songs = MapSong(st.songs, action.id, LAMBDA s : [s EXCEPT !.previewFilePath = null])]

START_EXPORT(st, action) ==
  [st EXCEPT !.songs = MapSong(st.songs, action.id, LAMBDA s : [s EXCEPT !.status = "exporting"])]

EXPORT_COMPLETE(st, action) ==
  [st EXCEPT !.songs = MapSong(st.songs, action.id,
      LAMBDA s : [s EXCEPT !.status = "completed", !.censoredFilePath = action.outputPath])]

START_EXPORT_ALL(st, action) == [st EXCEPT !.isExportingAll = TRUE]

EXPORT_ALL_COMPLETE(st, action) == [st EXCEPT !.isExportingAll = FALSE]

RETRY_SONG(st, action) ==
  IF ~HasSong(st.songs, action.id) \/ FindSong(st.songs, action.id).status # "error" THEN st
  ELSE [st EXCEPT !.songs = MapSong(st.songs, action.id,
            LAMBDA s : [s EXCEPT !.status = "pending", !.errorMessage = null, !.words = <<>>,
                                 !.vocalsPath = null, !.accompanimentPath = null,
                                 !.transcriptionProgress = null, !.separationProgress = null,
                                 !.lyrics = null]),
                  !.processingQueue = Append(st.processingQueue, action.id)]

reducer(st, action) ==
  CASE action.type = "ADD_SONGS" -> ADD_SONGS(st, action)
    [] action.type = "REMOVE_SONG" -> REMOVE_SONG(st, action)
    [] action.type = "CLEAR_ALL_SONGS" -> CLEAR_ALL_SONGS(st, action)
    [] action.type = "SET_EXPANDED_SONG" -> SET_EXPANDED_SONG(st, action)
    [] action.type = "START_PROCESSING" -> START_PROCESSING(st, action)
    [] action.type = "SET_SONG_METADATA" -> SET_SONG_METADATA(st, action)
    [] action.type = "SET_SONG_LYRICS" -> SET_SONG_LYRICS(st, action)
    [] action.type = "START_FETCHING_LYRICS" -> START_FETCHING_LYRICS(st, action)
    [] action.type = "START_TRANSCRIPTION" -> START_TRANSCRIPTION(st, action)
    [] action.type = "TRANSCRIPTION_PROGRESS" -> TRANSCRIPTION_PROGRESS(st, action)
    [] action.type = "TRANSCRIPTION_COMPLETE" -> TRANSCRIPTION_COMPLETE(st, action)
    [] action.type = "START_SEPARATING" -> START_SEPARATING(st, action)
    [] action.type = "SEPARATION_PROGRESS" -> SEPARATION_PROGRESS(st, action)
    [] action.type = "SEPARATION_COMPLETE" -> SEPARATION_COMPLETE(st, action)
    [] action.type = "SET_SONG_READY" -> SET_SONG_READY(st, action)
    [] action.type = "SET_SONG_ERROR" -> SET_SONG_ERROR(st, action)
    [] action.type = "PROCESSING_COMPLETE" -> PROCESSING_COMPLETE(st, action)
    [] action.type = "ADD_MANUAL_WORD" -> ADD_MANUAL_WORD(st, action)
    [] action.type = "TOGGLE_PROFANITY" -> TOGGLE_PROFANITY(st, action)
    [] action.type = "SET_WORD_CENSOR_TYPE" -> SET_WORD_CENSOR_TYPE(st, action)
    [] action.type = "SET_SONG_CENSOR_TYPE" -> SET_SONG_CENSOR_TYPE(st, action)
    [] action.type = "START_PREVIEW_GENERATION" -> START_PREVIEW_GENERATION(st, action)
    [] action.type = "PREVIEW_GENERATED" -> PREVIEW_GENERATED(st, action)
    [] action.type = "PREVIEW_GENERATION_FAILED" -> PREVIEW_GENERATION_FAILED(st, action)
    [] action.type = "CLEAR_PREVIEW" -> CLEAR_PREVIEW(st, action)
    [] action.type = "START_EXPORT" -> START_EXPORT(st, action)
    [] action.type = "EXPORT_COMPLETE" -> EXPORT_COMPLETE(st, action)
    [] action.type = "START_EXPORT_ALL" -> START_EXPORT_ALL(st, action)
    [] action.type = "EXPORT_ALL_COMPLETE" -> EXPORT_ALL_COMPLETE(st, action)
    [] action.type = "RETRY_SONG" -> RETRY_SONG(st, action)
    [] OTHER -> st

\* a run of dispatches made in one synchronous block, applied in order
RECURSIVE Dispatch(_, _)
Dispatch(st, actions) ==
  IF actions = <<>> THEN st ELSE Dispatch(reducer(st, Head(actions)), Tail(actions))


\* ------------------------------------------------------------------------
\* History of the run: what the properties need to remember of past steps
\* ------------------------------------------------------------------------
NoEdit == [type |-> "none", songId |-> NoId]

NoHistory ==
  [ admitted |-> <<>>,                  \* ids in admission order, while undisturbed
    disturbed |-> FALSE,                \* a failure, removal or retry has happened
    ahead |-> [id \in AllIds |-> {}],   \* items waiting when id was last retried
    lastEdit |-> NoEdit,                \* the edit this step dispatched, if any
    skipped |-> FALSE ]                 \* this step discarded the head of the queue

StatusOf(songs, id) == IF HasSong(songs, id) THEN FindSong(songs, id).status ELSE "absent"

\* pending items of the admission queue
Waiting(st) == { id \in Ids(st.songs) : Includes(st.processingQueue, id) /\ StatusOf(st.songs, id) = "pending" }

\* the head of the admission queue is not an item processNext can start
DeadHead(st) ==
  /\ Len(st.processingQueue) > 0
  /\ StatusOf(st.songs, st.processingQueue[1]) # "pending"

Observe(edit) ==
  LET both == Ids(state.songs) \cap Ids(state'.songs)
      admittedId == IF state.currentlyProcessingId = NoId THEN state'.currentlyProcessingId ELSE NoId
      failed == { id \in both : StatusOf(state.songs, id) # "error" /\ StatusOf(state'.songs, id) = "error" }
      removed == Ids(state.songs) \ Ids(state'.songs)
      retried == { id \in both : StatusOf(state.songs, id) = "error" /\ StatusOf(state'.songs, id) = "pending" }
      disturbedNow == hist.disturbed \/ failed # {} \/ removed # {} \/ retried # {}
  IN hist' = [ admitted |-> IF disturbedNow THEN <<>>
                            ELSE IF admittedId # NoId THEN Append(hist.admitted, admittedId)
                            ELSE hist.admitted,
               disturbed |-> disturbedNow,
               ahead |-> [id \in AllIds |->
                            IF id \in retried THEN Waiting(state) \ {id}
                            ELSE (hist.ahead[id] \ {admittedId}) \cap Ids(state'.songs)],
               lastEdit |-> edit,
               skipped |-> ~isProcessingRef /\ state.currentlyProcessingId = NoId /\ DeadHead(state) ]

\* ------------------------------------------------------------------------
\* Initial state (initialState, and the refs of MainApp / useQueueProcessor)
\* ------------------------------------------------------------------------
initialState ==
  [ globalDefaultCensorType |-> "mute", songs |-> <<>>, currentlyProcessingId |-> NoId,
    processingQueue |-> <<>>, expandedSongId |-> NoId, isExportingAll |-> FALSE ]

\* separated: vocals_path of the separationResult of the run; vocals_path:
\* the vocalsPath argument of its transcribeFile call
IdleProc == [pc |-> "idle", songId |-> NoId, lyrics |-> null, separated |-> null, vocals_path |-> null]

\* what separateAudio resolves with for the file of a song
SeparationResult(id) ==
  [vocals_path |-> "vocals" \o ToString(id), accompaniment_path |-> "accompaniment" \o ToString(id)]

\* edited: a word-level edit reached the item while its censorAudio call was
\* in flight (read by the properties only)
IdleRun == [pc |-> "idle", songs |-> <<>>, idx |-> 0, edited |-> FALSE]

\* restarts: how often the pending timer replaced a pending one (at most MaxBurst
\* are counted)
NoTimer == [armed |-> FALSE, id |-> NoId, censorWords |-> <<>>, restarts |-> 0]

\* timer: ticks since setTimeout, Cleared after clearTimeout
Cleared == -1

\* requests: the fetch(url) calls the invocation has made
NoCall == [phase |-> "idle", timer |-> Cleared, buffer |-> <<>>, outcome |-> "none", requests |-> 0]

\* no invocation of fetchBackend yet; issued and last are read by the
\* properties only: whether the worker was alive when each fetch was issued,
\* and how the last attempt ended
NoRequest == [phase |-> "idle", attempt |-> 0, timer |-> 0, wait |-> 0, status |-> 0,
              issued |-> <<>>, last |-> "none",
              error |-> "none", message |-> "none", aliveAtFailure |-> FALSE]

\* let pythonProcess = null; exited: the worker process is gone or has
\* recorded an exit code or signal
NoWorker == [handle |-> FALSE, exited |-> FALSE]

\* let isReady = false, let logStream = null; no start, no stop yet.
\* pc: where startPythonBackend is; elapsed: ticks since pollHealth began;
\* health: the answer to the /health request on its way; killed: the killed
\* flag of the ChildProcess; grace: the timer of the forced kill.
\* Read by the properties only: the signals a live worker was sent, the
\* calls of stop, whether isReady was ever true, whether the exit event ran
NoBridge ==
  [ isReady |-> FALSE, logStream |-> FALSE, listeners |-> FALSE,
    pc |-> "idle", elapsed |-> 0, health |-> "none",
    killed |-> FALSE, grace |-> "none", graceLeft |-> 0,
    sigterm |-> 0, sigkill |-> 0, stops |-> 0, everReady |-> FALSE, exitObserved |-> FALSE ]

Init ==
  /\ state = initialState
  /\ nextId = 1
  /\ isProcessingRef = FALSE
  /\ proc = IdleProc
  /\ lookups = [id \in AllIds |-> 0]
  /\ exportingRef = FALSE
  /\ exportRuns = [k \in AllRuns |-> IdleRun]
  /\ generationRequestRef = 0
  /\ debounce = NoTimer
  /\ previews = {}
  /\ hist = NoHistory
  /\ call = NoCall
  /\ clock = [silence |-> 0, total |-> 0, otherSince |-> FALSE, resultSeen |-> FALSE, ended |-> FALSE,
             malformed |-> FALSE]
  /\ plain = NoRequest
  /\ pythonProcess = NoWorker
  /\ bridge = NoBridge

\* ------------------------------------------------------------------------
\* MainApp: the effect that regenerates the preview of the open item
\* ------------------------------------------------------------------------
\* the CensorWord list MainApp builds from the profane words of a song
CensorWords(song) ==
  LET profaneWords == Filter(song.words, LAMBDA w : w.is_profanity)
  IN [i \in DOMAIN profaneWords |->
        [ word |-> profaneWords[i].word, start |-> profaneWords[i].start,
          censor_type |-> IF profaneWords[i].censor_type # null THEN profaneWords[i].censor_type
                          ELSE song.defaultCensorType ]]

\* expandedSongWordsSignature: null without an open item, else one entry
\* per profane word
expandedSongWordsSignature(st) ==
  IF st.expandedSongId = NoId \/ ~HasSong(st.songs, st.expandedSongId)
  THEN [isNull |-> TRUE, entries |-> <<>>]
  ELSE [isNull |-> FALSE, entries |-> CensorWords(FindSong(st.songs, st.expandedSongId))]

\* the dependency list of the effect
EffectDeps(st) == <<st.expandedSongId, expandedSongWordsSignature(st)>>

\* the body of the effect: the timer it sets, with what its callback closes over
EffectBody(st) ==
  IF st.expandedSongId = NoId \/ ~HasSong(st.songs, st.expandedSongId) THEN NoTimer
  ELSE LET song == FindSong(st.songs, st.expandedSongId)
       IN IF song.status # "ready" THEN NoTimer
          ELSE IF song.previewFilePath # null \/ song.isGeneratingPreview THEN NoTimer
          ELSE IF CensorWords(song) = <<>> THEN NoTimer
          ELSE [armed |-> TRUE, id |-> song.id, censorWords |-> CensorWords(song), restarts |-> 0]

\* after a render: when a dependency changed, the cleanup clears the old
\* timer and the body runs again
Restarted(timer) ==
  IF timer.armed /\ debounce.armed
  THEN [timer EXCEPT !.restarts = IF debounce.restarts < MaxBurst THEN debounce.restarts + 1 ELSE MaxBurst]
  ELSE timer

\* an effect whose cleanup leaves a pending timer alone
DebounceEffectKeepsTimer ==
  debounce' = IF EffectDeps(state') = EffectDeps(state) \/ debounce.armed THEN debounce
              ELSE Restarted(EffectBody(state'))

DebounceEffect ==
  debounce' = IF EffectDeps(state') = EffectDeps(state) THEN debounce ELSE Restarted(EffectBody(state'))

\* what every handler's step ends with: the render, its effects, the history
Rerender(edit) == DebounceEffect /\ Observe(edit) /\ UNCHANGED <<streamVars, fetchVars>>

\* the same for the handlers that start or settle no preview
Commit == Rerender(NoEdit) /\ UNCHANGED <<generationRequestRef, previews>>

\* The queue effect of useQueueProcessor has nothing to do: React runs a
\* pending effect before it handles the next event, so every other step
\* starts from such a state
Quiescent ==
  \/ isProcessingRef
  \/ Len(state.processingQueue) = 0
  \/ state.currentlyProcessingId # NoId

\* ------------------------------------------------------------------------
\* Metadata effect of MainApp: runs when state.songs.length changes and
\* starts one lookup for every song whose metadata is still null
\* ------------------------------------------------------------------------
NeedsMetadata(songs) == { songs[i].id : i \in { j \in DOMAIN songs : songs[j].metadata = null } }

MetadataEffect(songs) ==
  /\ \A id \in NeedsMetadata(songs) : lookups[id] < MaxLookups
  /\ lookups' = [id \in DOMAIN lookups |-> IF id \in NeedsMetadata(songs) THEN lookups[id] + 1 ELSE lookups[id]]

\* handleFilesSelected: ADD_SONGS with n files, then the metadata effect
AddSongs(n, limit) ==
  /\ Quiescent
  /\ nextId + n - 1 <= limit
  /\ state' = reducer(state, [type |-> "ADD_SONGS", ids |-> [i \in 1..n |-> nextId + i - 1]])
  /\ nextId' = nextId + n
  /\ MetadataEffect(state'.songs)
  /\ UNCHANGED <<isProcessingRef, proc, exportingRef, exportRuns>>
  /\ Commit

\* getAudioMetadata(...).then: the lookup of song id resolves
LookupResolve(id, metadata) ==
  /\ Quiescent
  /\ lookups[id] > 0
  /\ lookups' = [lookups EXCEPT ![id] = @ - 1]
  /\ state' = reducer(state, [type |-> "SET_SONG_METADATA", id |-> id, metadata |-> metadata])
  /\ UNCHANGED <<nextId, isProcessingRef, proc, exportingRef, exportRuns>>
  /\ Commit

\* QueueItem: the remove button is rendered unless the row is processing
CanRemove(song) == song.status \notin {"transcribing", "separating", "exporting"}

\* handleRemoveSong, then the metadata effect (the length changed)
RemoveSong(id) ==
  /\ Quiescent
  /\ HasSong(state.songs, id)
  /\ CanRemove(FindSong(state.songs, id))
  /\ state' = reducer(state, [type |-> "REMOVE_SONG", id |-> id])
  /\ MetadataEffect(state'.songs)
  /\ UNCHANGED <<nextId, isProcessingRef, proc, exportingRef, exportRuns>>
  /\ Commit

\* BatchControls: Clear Queue is disabled while processing or exporting
CanClearAll == /\ state.currentlyProcessingId = NoId
               /\ ~state.isExportingAll
               /\ Len(state.songs) > 0

\* handleClearAll
ClearAll ==
  /\ Quiescent
  /\ CanClearAll
  /\ state' = reducer(state, [type |-> "CLEAR_ALL_SONGS"])
  /\ UNCHANGED <<nextId, isProcessingRef, proc, lookups, exportingRef, exportRuns>>
  /\ Commit

\* retrySong: the retry button is rendered for rows in error
RetrySong(id) ==
  /\ Quiescent
  /\ HasSong(state.songs, id)
  /\ FindSong(state.songs, id).status = "error"
  /\ state' = reducer(state, [type |-> "RETRY_SONG", id |-> id])
  /\ UNCHANGED <<nextId, isProcessingRef, proc, lookups, exportingRef, exportRuns>>
  /\ Commit

\* ------------------------------------------------------------------------
\* useQueueProcessor: processNext and processSong
\* ------------------------------------------------------------------------
HasArtistAndTitle(song) == song.metadata = "tagged"

\* a processNext without its two early returns on a job in progress
ProcessNextUngated ==
  /\ Len(state.processingQueue) > 0
  /\ LET nextId_ == state.processingQueue[1]
         exists == HasSong(state.songs, nextId_)
     IN IF ~exists \/ FindSong(state.songs, nextId_).status # "pending"
        THEN /\ state' = reducer(state, [type |-> "PROCESSING_COMPLETE", id |-> nextId_])
             /\ UNCHANGED <<isProcessingRef, proc>>
        ELSE /\ isProcessingRef' = TRUE
             /\ state' = Dispatch(state, << [type |-> "START_PROCESSING", id |-> nextId_],
                                            [type |-> "START_SEPARATING", id |-> nextId_] >>)
             /\ proc' = [IdleProc EXCEPT !.pc = "separating", !.songId = nextId_]
  /\ UNCHANGED <<nextId, lookups, exportingRef, exportRuns>>
  /\ Commit

\* a processNext that returns when the head of the queue cannot be started
ProcessNextStalls ==
  /\ ~isProcessingRef
  /\ state.currentlyProcessingId = NoId
  /\ ~DeadHead(state)
  /\ ProcessNextUngated

\* processNext, up to the first await of processSong
ProcessNext ==
  /\ ~isProcessingRef
  /\ Len(state.processingQueue) > 0
  /\ state.currentlyProcessingId = NoId
  /\ LET nextId_ == state.processingQueue[1]
         exists == HasSong(state.songs, nextId_)
     IN IF ~exists \/ FindSong(state.songs, nextId_).status # "pending"
        THEN /\ state' = reducer(state, [type |-> "PROCESSING_COMPLETE", id |-> nextId_])
             /\ UNCHANGED <<isProcessingRef, proc>>
        ELSE /\ isProcessingRef' = TRUE
             /\ IF HasArtistAndTitle(FindSong(state.songs, nextId_))
                THEN /\ state' = Dispatch(state, << [type |-> "START_PROCESSING", id |-> nextId_],
                                                    [type |-> "START_FETCHING_LYRICS", id |-> nextId_] >>)
                     /\ proc' = [IdleProc EXCEPT !.pc = "lyrics", !.songId = nextId_]
                ELSE /\ state' = Dispatch(state, << [type |-> "START_PROCESSING", id |-> nextId_],
                                                    [type |-> "START_SEPARATING", id |-> nextId_] >>)
                     /\ proc' = [IdleProc EXCEPT !.pc = "separating", !.songId = nextId_]
  /\ UNCHANGED <<nextId, lookups, exportingRef, exportRuns>>
  /\ Commit

\* processSong: fetchLyrics resolves (the handler in main never rejects)
LyricsResolve(found) ==
  /\ Quiescent
  /\ proc.pc = "lyrics"
  /\ state' = IF found
              THEN Dispatch(state, << [type |-> "SET_SONG_LYRICS", id |-> proc.songId, lyrics |-> "lyrics"],
                                      [type |-> "START_SEPARATING", id |-> proc.songId] >>)
              ELSE reducer(state, [type |-> "START_SEPARATING", id |-> proc.songId])
  /\ proc' = [proc EXCEPT !.pc = "separating", !.lyrics = IF found THEN "lyrics" ELSE null]
  /\ UNCHANGED <<nextId, isProcessingRef, lookups, exportingRef, exportRuns>>
  /\ Commit

\* what the step after a failed lyrics lookup is recorded as
LyricsFailure(id) == [type |-> "lyrics lookup failed", songId |-> id]

\* a lyrics lookup whose failure reaches the outer catch of processSong
LyricsRejectSurfaces ==
  /\ Quiescent
  /\ proc.pc = "lyrics"
  /\ state' = Dispatch(state, << [type |-> "SET_SONG_ERROR", id |-> proc.songId, message |-> "lyrics lookup failed"],
                                 [type |-> "PROCESSING_COMPLETE", id |-> proc.songId] >>)
  /\ proc' = IdleProc
  /\ isProcessingRef' = FALSE
  /\ UNCHANGED <<nextId, lookups, exportingRef, exportRuns, generationRequestRef, previews>>
  /\ Rerender(LyricsFailure(proc.songId))

\* processSong: fetchLyrics rejects, or what it resolved with cannot be read;
\* the inner catch swallows it and separateAudio is called
LyricsReject ==
  /\ Quiescent
  /\ proc.pc = "lyrics"
  /\ state' = reducer(state, [type |-> "START_SEPARATING", id |-> proc.songId])
  /\ proc' = [proc EXCEPT !.pc = "separating", !.lyrics = null]
  /\ UNCHANGED <<nextId, isProcessingRef, lookups, exportingRef, exportRuns, generationRequestRef, previews>>
  /\ Rerender(LyricsFailure(proc.songId))

\* onSeparationProgress subscription of the currently processing song
SeparationProgress ==
  /\ Quiescent
  /\ proc.pc = "separating"
  /\ state.currentlyProcessingId # NoId
  /\ state' = reducer(state, [type |-> "SEPARATION_PROGRESS", id |-> state.currentlyProcessingId, progress |-> "progress"])
  /\ UNCHANGED <<nextId, isProcessingRef, proc, lookups, exportingRef, exportRuns>>
  /\ Commit

\* a continuation that releases the flag of processNext before the run is over
SeparationResolveClearsFlag ==
  /\ Quiescent
  /\ proc.pc = "separating"
  /\ LET separationResult == SeparationResult(proc.songId)
     IN /\ state' = Dispatch(state, << [type |-> "SEPARATION_COMPLETE", id |-> proc.songId,
                                        vocalsPath |-> separationResult.vocals_path,
                                        accompanimentPath |-> separationResult.accompaniment_path],
                                       [type |-> "START_TRANSCRIPTION", id |-> proc.songId] >>)
        /\ proc' = [proc EXCEPT !.pc = "transcribing", !.separated = separationResult.vocals_path,
                                !.vocals_path = separationResult.vocals_path]
  /\ isProcessingRef' = FALSE
  /\ UNCHANGED <<nextId, lookups, exportingRef, exportRuns>>
  /\ Commit

\* processSong: separateAudio resolves, transcribeFile is called
SeparationResolve ==
  /\ Quiescent
  /\ proc.pc = "separating"
  /\ LET separationResult == SeparationResult(proc.songId)
     IN /\ state' = Dispatch(state, << [type |-> "SEPARATION_COMPLETE", id |-> proc.songId,
                                        vocalsPath |-> separationResult.vocals_path,
                                        accompanimentPath |-> separationResult.accompaniment_path],
                                       [type |-> "START_TRANSCRIPTION", id |-> proc.songId] >>)
        /\ proc' = [proc EXCEPT !.pc = "transcribing", !.separated = separationResult.vocals_path,
                                !.vocals_path = separationResult.vocals_path]
  /\ UNCHANGED <<nextId, isProcessingRef, lookups, exportingRef, exportRuns>>
  /\ Commit

\* processSong: catch and finally, then processNext resumes and clears the flag
Settle(actions) ==
  /\ state' = Dispatch(state, actions \o << [type |-> "PROCESSING_COMPLETE", id |-> proc.songId] >>)
  /\ proc' = IdleProc
  /\ isProcessingRef' = FALSE

\* a processSong that goes on to transcribe the original file when separateAudio rejects
SeparationRejectContinues ==
  /\ Quiescent
  /\ proc.pc = "separating"
  /\ state' = reducer(state, [type |-> "START_TRANSCRIPTION", id |-> proc.songId])
  /\ proc' = [proc EXCEPT !.pc = "transcribing"]
  /\ UNCHANGED <<nextId, isProcessingRef, lookups, exportingRef, exportRuns>>
  /\ Commit

\* processSong: separateAudio rejects
SeparationReject ==
  /\ Quiescent
  /\ proc.pc = "separating"
  /\ Settle(<< [type |-> "SET_SONG_ERROR", id |-> proc.songId, message |-> "Separation error"] >>)
  /\ UNCHANGED <<nextId, lookups, exportingRef, exportRuns>>
  /\ Commit

\* onTranscriptionProgress subscription of the currently processing song
TranscriptionProgress ==
  /\ Quiescent
  /\ proc.pc = "transcribing"
  /\ state.currentlyProcessingId # NoId
  /\ state' = reducer(state, [type |-> "TRANSCRIPTION_PROGRESS", id |-> state.currentlyProcessingId, progress |-> "progress"])
  /\ UNCHANGED <<nextId, isProcessingRef, proc, lookups, exportingRef, exportRuns>>
  /\ Commit

\* processSong: transcribeFile resolves
TranscriptionResolve(words) ==
  /\ Quiescent
  /\ proc.pc = "transcribing"
  /\ Settle(<< [type |-> "TRANSCRIPTION_COMPLETE", id |-> proc.songId, words |-> words,
                duration |-> 4, language |-> "en"],
               [type |-> "SET_SONG_READY", id |-> proc.songId] >>)
  /\ UNCHANGED <<nextId, lookups, exportingRef, exportRuns>>
  /\ Commit

\* a processSong without its finally block
TranscriptionRejectNoFinally ==
  /\ Quiescent
  /\ proc.pc = "transcribing"
  /\ state' = reducer(state, [type |-> "SET_SONG_ERROR", id |-> proc.songId, message |-> "Transcription error"])
  /\ proc' = IdleProc
  /\ isProcessingRef' = FALSE
  /\ UNCHANGED <<nextId, lookups, exportingRef, exportRuns>>
  /\ Commit

\* processSong: transcribeFile rejects
TranscriptionReject ==
  /\ Quiescent
  /\ proc.pc = "transcribing"
  /\ Settle(<< [type |-> "SET_SONG_ERROR", id |-> proc.songId, message |-> "Transcription error"] >>)
  /\ UNCHANGED <<nextId, lookups, exportingRef, exportRuns>>
  /\ Commit


\* ------------------------------------------------------------------------
\* MainApp.handleExportAll: one record per invocation that has not returned
\* ------------------------------------------------------------------------
\* BatchControls: canExport
CanExport ==
  /\ \E i \in DOMAIN state.songs : state.songs[i].status \in {"ready", "completed"}
  /\ ~state.isExportingAll
  /\ state.currentlyProcessingId = NoId

Exportable(song) ==
  /\ song.status \in {"ready", "completed"}
  /\ \E i \in DOMAIN song.words : song.words[i].is_profanity

\* what the loop reads of a song of its closure
ExportSnapshot(song) ==
  [ id |-> song.id, exportable |-> Exportable(song), censorWords |-> CensorWords(song),
    vocalsPath |-> song.vocalsPath, accompanimentPath |-> song.accompanimentPath ]

\* the click, up to "await checkCanProcess()"; the closure keeps state.songs
ExportClick(k) ==
  /\ Quiescent
  /\ exportRuns[k].pc = "idle"
  /\ \A j \in 1..(k - 1) : exportRuns[j].pc # "idle"
  /\ CanExport
  /\ ~exportingRef
  /\ exportRuns' = [exportRuns EXCEPT ![k] = [pc |-> "check", idx |-> 0, edited |-> FALSE,
                       songs |-> [i \in DOMAIN state.songs |-> ExportSnapshot(state.songs[i])]]]
  /\ UNCHANGED <<state, nextId, isProcessingRef, proc, lookups, exportingRef>>
  /\ Commit

\* checkCanProcess resolves; outcome "paywall": canProcess is false,
\* "quota": more exportable songs than songsRemaining, "ok": otherwise
ExportCheckResolve(k, outcome) ==
  /\ Quiescent
  /\ exportRuns[k].pc = "check"
  /\ LET exportableSongs == Filter(exportRuns[k].songs, LAMBDA song : song.exportable)
     IN IF outcome = "paywall"
        THEN /\ exportRuns' = [exportRuns EXCEPT ![k] = IdleRun]
             /\ UNCHANGED exportingRef
        ELSE IF exportableSongs = <<>> \/ outcome = "quota"
        THEN /\ exportRuns' = [exportRuns EXCEPT ![k] = IdleRun]
             /\ exportingRef' = FALSE
        ELSE /\ exportRuns' = [exportRuns EXCEPT ![k] = [pc |-> "dialog", songs |-> exportableSongs, idx |-> 0,
                                                              edited |-> FALSE]]
             /\ exportingRef' = TRUE
  /\ UNCHANGED <<state, nextId, isProcessingRef, proc, lookups>>
  /\ Commit

\* selectOutputDirectory resolves; on a directory the loop starts its first export
ExportDialogResolve(k, chosen) ==
  /\ Quiescent
  /\ exportRuns[k].pc = "dialog"
  /\ IF ~chosen
     THEN /\ exportRuns' = [exportRuns EXCEPT ![k] = IdleRun]
          /\ exportingRef' = FALSE
          /\ UNCHANGED state
     ELSE /\ state' = Dispatch(state, << [type |-> "START_EXPORT_ALL"],
                                         [type |-> "START_EXPORT", id |-> exportRuns[k].songs[1].id] >>)
          /\ exportRuns' = [exportRuns EXCEPT ![k].pc = "censor", ![k].idx = 1]
          /\ UNCHANGED exportingRef
  /\ UNCHANGED <<nextId, isProcessingRef, proc, lookups>>
  /\ Commit

\* end of one loop iteration: the next START_EXPORT, or EXPORT_ALL_COMPLETE
ExportAdvance(k, actions) ==
  LET run == exportRuns[k]
  IN IF run.idx < Len(run.songs)
     THEN /\ state' = Dispatch(state, actions \o << [type |-> "START_EXPORT", id |-> run.songs[run.idx + 1].id] >>)
          /\ exportRuns' = [exportRuns EXCEPT ![k].pc = "censor", ![k].idx = run.idx + 1, ![k].edited = FALSE]
          /\ UNCHANGED exportingRef
     ELSE /\ state' = Dispatch(state, actions \o << [type |-> "EXPORT_ALL_COMPLETE"] >>)
          /\ exportRuns' = [exportRuns EXCEPT ![k] = IdleRun]
          /\ exportingRef' = FALSE

\* censorAudio resolves
CensorResolve(k) ==
  /\ Quiescent
  /\ exportRuns[k].pc = "censor"
  /\ state' = reducer(state, [type |-> "EXPORT_COMPLETE", id |-> exportRuns[k].songs[exportRuns[k].idx].id,
                              outputPath |-> "censored"])
  /\ exportRuns' = [exportRuns EXCEPT ![k].pc = "history"]
  /\ UNCHANGED <<nextId, isProcessingRef, proc, lookups, exportingRef>>
  /\ Commit

\* censorAudio rejects
CensorReject(k) ==
  /\ Quiescent
  /\ exportRuns[k].pc = "censor"
  /\ ExportAdvance(k, << [type |-> "SET_SONG_ERROR", id |-> exportRuns[k].songs[exportRuns[k].idx].id,
                          message |-> "Censor error"] >>)
  /\ UNCHANGED <<nextId, isProcessingRef, proc, lookups>>
  /\ Commit

\* recordUsage settles (its failure is caught) and addHistoryEntry resolves
HistoryResolve(k) ==
  /\ Quiescent
  /\ exportRuns[k].pc = "history"
  /\ ExportAdvance(k, <<>>)
  /\ UNCHANGED <<nextId, isProcessingRef, proc, lookups>>
  /\ Commit

\* addHistoryEntry rejects: the outer catch of the loop body
HistoryReject(k) ==
  /\ Quiescent
  /\ exportRuns[k].pc = "history"
  /\ ExportAdvance(k, << [type |-> "SET_SONG_ERROR", id |-> exportRuns[k].songs[exportRuns[k].idx].id,
                          message |-> "History error"] >>)
  /\ UNCHANGED <<nextId, isProcessingRef, proc, lookups>>
  /\ Commit

\* ------------------------------------------------------------------------
\* The queue: songs, scheduler, pipeline and export
\* ------------------------------------------------------------------------
Next ==
  \/ \E n \in 1..MaxBatch : AddSongs(n, MaxSongs)
  \/ \E id \in 1..MaxSongs, metadata \in MetadataResults : LookupResolve(id, metadata)
  \/ \E id \in 1..MaxSongs : RemoveSong(id)
  \/ ClearAll
  \/ \E id \in 1..MaxSongs : RetrySong(id)
  \/ ProcessNext
  \/ \E found \in BOOLEAN : LyricsResolve(found)
  \/ LyricsReject
  \/ SeparationProgress
  \/ SeparationResolve
  \/ SeparationReject
  \/ TranscriptionProgress
  \/ \E words \in TranscriptionResults : TranscriptionResolve(words)
  \/ TranscriptionReject
  \/ \E k \in 1..MaxExportRuns : ExportClick(k)
  \/ \E k \in 1..MaxExportRuns, outcome \in {"ok", "paywall", "quota"} : ExportCheckResolve(k, outcome)
  \/ \E k \in 1..MaxExportRuns, chosen \in BOOLEAN : ExportDialogResolve(k, chosen)
  \/ \E k \in 1..MaxExportRuns : CensorResolve(k)
  \/ \E k \in 1..MaxExportRuns : CensorReject(k)
  \/ \E k \in 1..MaxExportRuns : HistoryResolve(k)
  \/ \E k \in 1..MaxExportRuns : HistoryReject(k)

Spec == Init /\ [][Next]_vars

\* ------------------------------------------------------------------------
\* MainApp: the detail panel, its edits and the preview requests
\* ------------------------------------------------------------------------
CensorTypes == {"beep"}

\* the word the manual-censor form of the panel submits
ManualWords == { W("m", 2, TRUE) }

\* QueueItem: canExpand
CanExpand(song) == song.status \in {"ready", "completed", "error"}

\* a previewAudio call: requestId is the token of the debounced path, 0 on the
\* path of handleToggleExpand, which checks none; "superseded" records that
\* the item was edited after the call was issued, "closed" that its view
\* was closed while the call was in flight
PreviewRequest(id, requestId, censorWords) ==
  [id |-> id, requestId |-> requestId, censorWords |-> censorWords, superseded |-> FALSE,
   closed |-> FALSE, burst |-> FALSE]

\* the calls in flight, after the view of the open item has been closed
AfterClose ==
  { IF r.id = state.expandedSongId THEN [r EXCEPT !.closed = TRUE] ELSE r : r \in previews }

\* handleToggleExpand
ToggleExpand(id) ==
  /\ Quiescent
  /\ HasSong(state.songs, id)
  /\ CanExpand(FindSong(state.songs, id))
  /\ LET song == FindSong(state.songs, id)
     IN IF state.expandedSongId = id
        THEN /\ generationRequestRef < MaxTokens
             /\ generationRequestRef' = generationRequestRef + 1
             /\ state' = reducer(state, [type |-> "SET_EXPANDED_SONG", id |-> NoId])
             /\ previews' = AfterClose
        ELSE IF /\ song.status = "ready" /\ song.previewFilePath = null
                /\ ~song.isGeneratingPreview /\ CensorWords(song) # <<>>
        THEN /\ state' = Dispatch(state, << [type |-> "SET_EXPANDED_SONG", id |-> id],
                                            [type |-> "START_PREVIEW_GENERATION", id |-> id] >>)
             /\ previews' = previews \cup {PreviewRequest(id, 0, CensorWords(song))}
             /\ UNCHANGED generationRequestRef
        ELSE /\ state' = reducer(state, [type |-> "SET_EXPANDED_SONG", id |-> id])
             /\ UNCHANGED <<generationRequestRef, previews>>
  /\ UNCHANGED <<nextId, isProcessingRef, proc, lookups, exportingRef, exportRuns>>
  /\ Rerender(NoEdit)

\* handleCloseExpanded
CloseExpanded ==
  /\ Quiescent
  /\ state.expandedSongId # NoId
  /\ HasSong(state.songs, state.expandedSongId)
  /\ state' = reducer(state, [type |-> "SET_EXPANDED_SONG", id |-> NoId])
  /\ previews' = AfterClose
  /\ UNCHANGED <<nextId, isProcessingRef, proc, lookups, exportingRef, exportRuns, generationRequestRef>>
  /\ Rerender(NoEdit)

\* the invocations of handleExportAll, after an edit of item id
EditedDuringExport(id) ==
  [k \in DOMAIN exportRuns |->
     IF exportRuns[k].pc = "censor" /\ exportRuns[k].songs[exportRuns[k].idx].id = id
     THEN [exportRuns[k] EXCEPT !.edited = TRUE]
     ELSE exportRuns[k]]

\* an edit of the panel: the handler dispatches the mutation, then CLEAR_PREVIEW
Edit(action) ==
  /\ Quiescent
  /\ state.expandedSongId = action.songId
  /\ HasSong(state.songs, action.songId)
  /\ state' = Dispatch(state, << action, [type |-> "CLEAR_PREVIEW", id |-> action.songId] >>)
  /\ previews' = { IF r.id = action.songId THEN [r EXCEPT !.superseded = TRUE] ELSE r : r \in previews }
  /\ exportRuns' = EditedDuringExport(action.songId)
  /\ UNCHANGED <<nextId, isProcessingRef, proc, lookups, exportingRef, generationRequestRef>>
  /\ Rerender([type |-> action.type, songId |-> action.songId])

\* handleToggleProfanity
ToggleProfanity(songId, wordIndex) ==
  /\ HasSong(state.songs, songId)
  /\ wordIndex \in DOMAIN FindSong(state.songs, songId).words
  /\ Edit([type |-> "TOGGLE_PROFANITY", songId |-> songId, wordIndex |-> wordIndex])

\* handleSetWordCensorType, called by the context menu of a word, which
\* returns at once on a word that is not profane and else passes the type
\* that follows the present one in its cycle
SetWordCensorType(songId, wordIndex, censorType) ==
  /\ HasSong(state.songs, songId)
  /\ wordIndex \in DOMAIN FindSong(state.songs, songId).words
  /\ LET song == FindSong(state.songs, songId)
         word == song.words[wordIndex]
     IN /\ word.is_profanity
        /\ censorType # (IF word.censor_type # null THEN word.censor_type ELSE song.defaultCensorType)
  /\ Edit([type |-> "SET_WORD_CENSOR_TYPE", songId |-> songId, wordIndex |-> wordIndex,
           censorType |-> censorType])

\* handleSetSongCensorType
SetSongCensorType(songId, censorType) ==
  Edit([type |-> "SET_SONG_CENSOR_TYPE", songId |-> songId, censorType |-> censorType])

\* handleAddManualWord: the form is part of the transcript editor
AddManualWord(songId, word) ==
  /\ HasSong(state.songs, songId)
  /\ Len(FindSong(state.songs, songId).words) \in 1..(MaxWords - 1)
  /\ Edit([type |-> "ADD_MANUAL_WORD", songId |-> songId, word |-> word])

\* SongDetailPanel.handleRemoveWord: a REMOVE_WORD action of BatchAppAction
\* reaches the reducer; MainApp has no handler that adds CLEAR_PREVIEW
RemoveWord(songId, wordIndex) ==
  /\ Quiescent
  /\ state.expandedSongId = songId
  /\ HasSong(state.songs, songId)
  /\ wordIndex \in DOMAIN FindSong(state.songs, songId).words
  /\ state' = reducer(state, [type |-> "REMOVE_WORD", songId |-> songId, wordIndex |-> wordIndex])
  /\ UNCHANGED <<nextId, isProcessingRef, proc, lookups, exportingRef, exportRuns,
                 generationRequestRef, previews>>
  /\ Rerender([type |-> "REMOVE_WORD", songId |-> songId])

\* the 500 ms timer of the effect fires: a new token, then previewAudio
DebounceFire ==
  /\ Quiescent
  /\ debounce.armed
  /\ generationRequestRef < MaxTokens
  /\ generationRequestRef' = generationRequestRef + 1
  /\ state' = reducer(state, [type |-> "START_PREVIEW_GENERATION", id |-> debounce.id])
  /\ previews' = previews \cup
       {[PreviewRequest(debounce.id, generationRequestRef + 1, debounce.censorWords)
           EXCEPT !.burst = debounce.restarts > 0]}
  /\ debounce' = NoTimer
  /\ UNCHANGED <<nextId, isProcessingRef, proc, lookups, exportingRef, exportRuns>>
  /\ Observe(NoEdit)
  /\ UNCHANGED <<streamVars, fetchVars>>

\* whether the continuation of a request dispatches its outcome
IsCurrent(r) == r.requestId = 0 \/ generationRequestRef = r.requestId

\* previewAudio resolves
PreviewResolve(r) ==
  /\ Quiescent
  /\ r \in previews
  /\ state' = IF IsCurrent(r)
              THEN reducer(state, [type |-> "PREVIEW_GENERATED", id |-> r.id, previewPath |-> "preview"])
              ELSE state
  /\ previews' = previews \ {r}
  /\ UNCHANGED <<nextId, isProcessingRef, proc, lookups, exportingRef, exportRuns, generationRequestRef>>
  /\ Rerender(NoEdit)

\* previewAudio rejects
PreviewReject(r) ==
  /\ Quiescent
  /\ r \in previews
  /\ state' = IF IsCurrent(r)
              THEN reducer(state, [type |-> "PREVIEW_GENERATION_FAILED", id |-> r.id, error |-> "Preview error"])
              ELSE state
  /\ previews' = previews \ {r}
  /\ UNCHANGED <<nextId, isProcessingRef, proc, lookups, exportingRef, exportRuns, generationRequestRef>>
  /\ Rerender(NoEdit)

\* one file through the pipeline, then the panel
PreviewNext ==
  \/ AddSongs(1, PreviewSongs)
  \/ \E id \in 1..PreviewSongs : LookupResolve(id, "untagged")
  \/ ProcessNext
  \/ SeparationResolve
  \/ \E words \in TranscriptionResults : TranscriptionResolve(words)
  \/ \E id \in 1..PreviewSongs : ToggleExpand(id)
  \/ CloseExpanded
  \/ \E id \in 1..PreviewSongs, i \in 1..MaxWords : ToggleProfanity(id, i)
  \/ \E id \in 1..PreviewSongs, i \in 1..MaxWords, t \in CensorTypes : SetWordCensorType(id, i, t)
  \/ \E id \in 1..PreviewSongs, t \in CensorTypes : SetSongCensorType(id, t)
  \/ \E id \in 1..PreviewSongs, w \in ManualWords : AddManualWord(id, w)
  \/ \E id \in 1..PreviewSongs, i \in 1..MaxWords : RemoveWord(id, i)
  \/ DebounceFire
  \/ \E r \in previews : PreviewResolve(r)
  \/ \E r \in previews : PreviewReject(r)

SpecPreview == Init /\ [][PreviewNext]_vars

\* handleToggleProfanity, handleSetWordCensorType, handleAddManualWord called
\* for an item in any status: neither the handlers nor the reducer look at
\* the status, only the rendering of the panel decides what can be clicked
HandleWordEdit(action) ==
  /\ Quiescent
  /\ HasSong(state.songs, action.songId)
  /\ action.type = "ADD_MANUAL_WORD" => Len(FindSong(state.songs, action.songId).words) < MaxWords
  /\ state' = Dispatch(state, << action, [type |-> "CLEAR_PREVIEW", id |-> action.songId] >>)
  /\ UNCHANGED <<nextId, isProcessingRef, proc, lookups, exportingRef, exportRuns,
                 generationRequestRef, previews>>
  /\ Rerender([type |-> action.type, songId |-> action.songId])

WordEdits(id) ==
  { [type |-> "TOGGLE_PROFANITY", songId |-> id, wordIndex |-> i] : i \in 1..MaxWords }
    \cup { [type |-> "SET_WORD_CENSOR_TYPE", songId |-> id, wordIndex |-> i, censorType |-> t] :
              i \in 1..MaxWords, t \in CensorTypes }
    \cup { [type |-> "ADD_MANUAL_WORD", songId |-> id, word |-> w] : w \in ManualWords }

\* one file through the pipeline while word edits are dispatched for it
DispatchNext ==
  \/ AddSongs(1, PreviewSongs)
  \/ \E id \in 1..PreviewSongs, metadata \in MetadataResults : LookupResolve(id, metadata)
  \/ \E id \in 1..PreviewSongs : RetrySong(id)
  \/ ProcessNext
  \/ \E found \in BOOLEAN : LyricsResolve(found)
  \/ LyricsReject
  \/ SeparationResolve
  \/ SeparationReject
  \/ \E words \in TranscriptionResults : TranscriptionResolve(words)
  \/ TranscriptionReject
  \/ \E id \in 1..PreviewSongs : \E action \in WordEdits(id) : HandleWordEdit(action)

SpecDispatch == Init /\ [][DispatchNext]_vars

\* one file through the pipeline, then the panel and Export All together:
\* the panel stays usable while handleExportAll awaits
ExportEditNext ==
  \/ AddSongs(1, PreviewSongs)
  \/ \E id \in 1..PreviewSongs : LookupResolve(id, "untagged")
  \/ ProcessNext
  \/ SeparationResolve
  \/ \E words \in TranscriptionResults : TranscriptionResolve(words)
  \/ \E id \in 1..PreviewSongs : ToggleExpand(id)
  \/ \E id \in 1..PreviewSongs, i \in 1..MaxWords : ToggleProfanity(id, i)
  \/ \E id \in 1..PreviewSongs, i \in 1..MaxWords, t \in CensorTypes : SetWordCensorType(id, i, t)
  \/ \E id \in 1..PreviewSongs, t \in CensorTypes : SetSongCensorType(id, t)
  \/ \E id \in 1..PreviewSongs, w \in ManualWords : AddManualWord(id, w)
  \/ \E k \in 1..MaxExportRuns : ExportClick(k)
  \/ \E k \in 1..MaxExportRuns : ExportCheckResolve(k, "ok")
  \/ \E k \in 1..MaxExportRuns, chosen \in BOOLEAN : ExportDialogResolve(k, chosen)
  \/ \E k \in 1..MaxExportRuns : CensorResolve(k)
  \/ \E k \in 1..MaxExportRuns : CensorReject(k)
  \/ \E k \in 1..MaxExportRuns : HistoryResolve(k)

SpecExportEdit == Init /\ [][ExportEditNext]_vars

\* ------------------------------------------------------------------------
\* Main process: fetchBackendStreaming, one call followed on a clock of ticks
\* ------------------------------------------------------------------------
RecordTypes == {"heartbeat", "progress", "error", "result"}

\* what a chunk of the body carries in: a whole record, the first or second
\* part of one, text that is no JSON, or the line terminator
Tokens ==
  { [type |-> t, part |-> p] : t \in RecordTypes, p \in {"whole", "head", "tail"} }
    \cup { [type |-> "garbage", part |-> "whole"], [type |-> "newline", part |-> "whole"] }

Newline == [type |-> "newline", part |-> "whole"]

\* line.trim() and JSON.parse(line).type of a line of the buffer
ParseLine(line) ==
  IF line = <<>> THEN "blank"
  ELSE IF Len(line) = 1 /\ line[1].part = "whole" /\ line[1].type \in RecordTypes THEN line[1].type
  ELSE IF /\ Len(line) = 2 /\ line[1].type = line[2].type /\ line[1].type \in RecordTypes
          /\ line[1].part = "head" /\ line[2].part = "tail" THEN line[1].type
  ELSE "unparseable"

Running == call.phase \in {"connecting", "reading"}

Settled(outcome) == [phase |-> IF outcome = "result" THEN "returned" ELSE "failed",
                     timer |-> Cleared, buffer |-> <<>>, outcome |-> outcome,
                     requests |-> call.requests]

\* the call: setTimeout, then "await fetch"
StreamStart ==
  /\ call.phase = "idle"
  /\ call' = [call EXCEPT !.phase = "connecting", !.timer = 0, !.requests = 1]
  /\ UNCHANGED <<appVars, clock, fetchVars>>

\* one tick of the clock; a timer that is due fires before time moves on
Tick ==
  /\ call.phase \in {"connecting", "reading", "errorBody"}
  /\ call.timer < IdleTimeout
  /\ clock.total < MaxElapsed
  /\ call' = [call EXCEPT !.timer = IF call.timer = Cleared THEN Cleared ELSE call.timer + 1]
  /\ clock' = [clock EXCEPT !.silence = IF clock.silence <= IdleTimeout THEN clock.silence + 1 ELSE clock.silence,
                            !.total = clock.total + 1]
  /\ UNCHANGED <<appVars, fetchVars>>

\* the timer fires: controller.abort(), the pending fetch or read rejects
IdleAbort ==
  /\ Running
  /\ call.timer = IdleTimeout
  /\ call' = Settled("aborted")
  /\ UNCHANGED <<appVars, clock, fetchVars>>

\* a catch that issues the request again, as fetchBackend does
ConnectFailRetries ==
  /\ call.phase = "connecting"
  /\ call.timer < IdleTimeout
  /\ call.requests < 3
  /\ call' = [call EXCEPT !.timer = 0, !.requests = call.requests + 1]
  /\ UNCHANGED <<appVars, clock, fetchVars>>

\* fetch rejects
ConnectFail ==
  /\ call.phase = "connecting"
  /\ call.timer < IdleTimeout
  /\ call' = Settled("connection failed")
  /\ UNCHANGED <<appVars, clock, fetchVars>>

\* fetch resolves; not ok: clearTimeout, then "await resp.text()"
Respond(ok) ==
  /\ call.phase = "connecting"
  /\ call.timer < IdleTimeout
  /\ call' = IF ok THEN [call EXCEPT !.phase = "reading"]
             ELSE [call EXCEPT !.phase = "errorBody", !.timer = Cleared]
  /\ UNCHANGED <<appVars, clock, fetchVars>>

\* resp.text() resolves and the status error is thrown
ErrorBodyRead ==
  /\ call.phase = "errorBody"
  /\ call' = Settled("bad status")
  /\ UNCHANGED <<appVars, clock, fetchVars>>

\* the record types for which the read loop calls resetTimer
ResetsTimerAnyRecord(type) == type \in {"heartbeat", "progress"}

ResetsTimerNever(type) == FALSE

ResetsTimer(type) == type = "heartbeat"

\* reader.read() resolves with a chunk: buffer += chunk, every complete line
\* is handled, the rest stays in the buffer
Receive(token) ==
  /\ call.phase = "reading"
  /\ call.timer < IdleTimeout
  /\ IF token # Newline
     THEN /\ Len(call.buffer) < MaxLine
          /\ call' = [call EXCEPT !.buffer = Append(call.buffer, token)]
          /\ UNCHANGED <<clock, fetchVars>>
     ELSE LET type == ParseLine(call.buffer)
          IN /\ call' = IF type = "error" THEN Settled("error record")
                        ELSE IF type = "result" THEN Settled("result")
                        ELSE [call EXCEPT !.buffer = <<>>,
                                          !.timer = IF ResetsTimer(type) THEN 0 ELSE call.timer]
             /\ clock' = IF type = "heartbeat" THEN [clock EXCEPT !.silence = 0, !.otherSince = FALSE]
                         ELSE IF type = "progress" THEN [clock EXCEPT !.otherSince = TRUE]
                         ELSE IF type = "unparseable" THEN [clock EXCEPT !.otherSince = TRUE, !.malformed = TRUE]
                         ELSE IF type = "result" THEN [clock EXCEPT !.resultSeen = TRUE]
                         ELSE clock
  /\ UNCHANGED <<appVars, fetchVars>>

\* an end of the loop that returns what it has, undefined
EndOfStreamReturns == Settled("result")

\* after the loop: clearTimeout, throw "stream ended without a result"
EndOfStream == Settled("ended without a result")

\* reader.read() resolves with done: the loop breaks
StreamEnd ==
  /\ call.phase = "reading"
  /\ call.timer < IdleTimeout
  /\ call' = EndOfStream
  /\ clock' = [clock EXCEPT !.ended = TRUE]
  /\ UNCHANGED <<appVars, fetchVars>>

StreamNext ==
  \/ StreamStart
  \/ Tick
  \/ IdleAbort
  \/ ConnectFail
  \/ \E ok \in BOOLEAN : Respond(ok)
  \/ ErrorBodyRead
  \/ \E token \in Tokens : Receive(token)
  \/ StreamEnd

SpecStream == Init /\ [][StreamNext]_vars

\* ------------------------------------------------------------------------
\* Main process: fetchBackend, the plain request with retries, and the
\* lifetime of the worker. Time is counted in ticks.
\* ------------------------------------------------------------------------
maxRetries == 2

Statuses == {200, 404, 500}

isBackendAlive == pythonProcess.handle /\ ~pythonProcess.exited

\* the worker process exists and has not exited
Alive == bridge.pc # "idle" /\ ~pythonProcess.exited

\* startPythonBackend, once, at application start: initLogFile, spawn, the
\* listeners, then pollHealth begins
WorkerSpawn ==
  /\ bridge.pc = "idle"
  /\ pythonProcess' = [handle |-> TRUE, exited |-> FALSE]
  /\ bridge' = [bridge EXCEPT !.pc = "polling", !.elapsed = 0, !.logStream = TRUE, !.listeners = TRUE]
  /\ UNCHANGED <<appVars, streamVars, plain>>

\* the worker process exits or is killed; the handle records it
WorkerExit ==
  /\ Alive
  /\ pythonProcess' = [pythonProcess EXCEPT !.exited = TRUE]
  /\ UNCHANGED <<appVars, streamVars, plain, bridge>>

\* pythonProcess.on('exit'): isReady = false, pythonProcess = null
ExitHandler ==
  /\ pythonProcess.handle
  /\ pythonProcess.exited
  /\ bridge.listeners
  /\ pythonProcess' = [pythonProcess EXCEPT !.handle = FALSE]
  /\ bridge' = [bridge EXCEPT !.isReady = FALSE, !.exitObserved = TRUE]
  /\ UNCHANGED <<appVars, streamVars, plain>>

\* fetch(url, ...) of the attempt plain.attempt, with a fresh abort timer
IssueFetch(attempt) ==
  [plain EXCEPT !.phase = "inflight", !.attempt = attempt, !.timer = 0, !.wait = 0,
                !.issued = Append(plain.issued, isBackendAlive)]

FetchStart ==
  /\ plain.phase = "idle"
  /\ plain' = IssueFetch(0)
  /\ UNCHANGED <<appVars, streamVars, workerVars>>

FetchTick ==
  /\ \/ /\ plain.phase = "inflight"
        /\ plain.timer < RequestTimeout
        /\ plain' = [plain EXCEPT !.timer = plain.timer + 1]
     \/ /\ plain.phase = "backoff"
        /\ plain.wait < BackoffDelay
        /\ plain' = [plain EXCEPT !.wait = plain.wait + 1]
  /\ UNCHANGED <<appVars, streamVars, workerVars>>

\* await fetch resolves: clearTimeout, return resp, whatever its status
FetchResponds(status) ==
  /\ plain.phase = "inflight"
  /\ plain.timer < RequestTimeout
  /\ isBackendAlive
  /\ plain' = [plain EXCEPT !.phase = "returned", !.status = status, !.last = "response"]
  /\ UNCHANGED <<appVars, streamVars, workerVars>>

\* the catch clause: clearTimeout, then sleep and retry, or throw
CatchFetch ==
  /\ plain' = IF plain.attempt < maxRetries /\ isBackendAlive
               THEN [plain EXCEPT !.phase = "backoff", !.wait = 0, !.last = "network failure"]
               ELSE [plain EXCEPT !.phase = "failed", !.last = "network failure"]
  /\ UNCHANGED <<appVars, streamVars, workerVars>>

\* await fetch rejects: the connection was refused or reset
FetchRejects ==
  /\ plain.phase = "inflight"
  /\ plain.timer < RequestTimeout
  /\ CatchFetch

\* the timer of the attempt fires: controller.abort() rejects the fetch
FetchTimeout ==
  /\ plain.phase = "inflight"
  /\ plain.timer = RequestTimeout
  /\ CatchFetch

\* the 2 s sleep is over: continue, the next turn of the loop
BackoffDone ==
  /\ plain.phase = "backoff"
  /\ plain.wait = BackoffDelay
  /\ plain' = IssueFetch(plain.attempt + 1)
  /\ UNCHANGED <<appVars, streamVars, workerVars>>

FetchNext ==
  \/ WorkerSpawn
  \/ WorkerExit
  \/ ExitHandler
  \/ FetchStart
  \/ FetchTick
  \/ \E status \in Statuses : FetchResponds(status)
  \/ FetchRejects
  \/ FetchTimeout
  \/ BackoffDone

SpecFetch == Init /\ [][FetchNext]_vars

\* ------------------------------------------------------------------------
\* Main process: the catch clause of the preview-audio and censor-audio
\* handlers and describeBackendError
\* ------------------------------------------------------------------------
\* if (!resp.ok) throw new Error(message), or fetchBackend itself threw; the
\* catch clause takes err.message and calls describeBackendError, which
\* starts its 500 ms timer
DescribeStart ==
  /\ \/ plain.phase = "failed"
     \/ plain.phase = "returned" /\ plain.status # 200
  /\ plain' = [plain EXCEPT !.phase = "describing", !.wait = 0,
                            !.error = IF plain.phase = "failed" THEN "fetch failed" ELSE "detail",
                            !.aliveAtFailure = isBackendAlive]
  /\ UNCHANGED <<appVars, streamVars, workerVars>>

\* the 500 ms of await new Promise((resolve) => setTimeout(resolve, 500))
DescribeTick ==
  /\ plain.phase = "describing"
  /\ plain.wait < DescribeDelay
  /\ plain' = [plain EXCEPT !.wait = plain.wait + 1]
  /\ UNCHANGED <<appVars, streamVars, workerVars>>

\* what describeBackendError would return without the test of the worker
describeBackendErrorBlind(originalMsg) == originalMsg

\* what describeBackendError returns once its timer has fired (the log hint
\* that both messages end with is left out)
describeBackendError(originalMsg) ==
  IF ~isBackendAlive THEN "Backend process crashed." ELSE originalMsg

\* the timer fires; the handler throws the described error to the renderer
DescribeReport ==
  /\ plain.phase = "describing"
  /\ plain.wait = DescribeDelay
  /\ plain' = [plain EXCEPT !.phase = "thrown", !.message = describeBackendError(plain.error)]
  /\ UNCHANGED <<appVars, streamVars, workerVars>>

AttributionNext ==
  \/ FetchNext
  \/ DescribeStart
  \/ DescribeTick
  \/ DescribeReport

SpecAttribution == Init /\ [][AttributionNext]_vars

\* ------------------------------------------------------------------------
\* Main process: startPythonBackend, pollHealth and stopPythonBackend
\* ------------------------------------------------------------------------
\* stopPythonBackend: what it leaves of pythonProcess (p) and of the rest (b).
\* ChildProcess.kill sets the killed flag when the signal could be sent, that
\* is when the process has not exited yet.
Stopped(p, b) ==
  [ p |-> [p EXCEPT !.handle = FALSE],
    b |-> IF p.handle
          THEN [b EXCEPT !.listeners = FALSE, !.killed = ~p.exited,
                         !.sigterm = IF p.exited THEN b.sigterm ELSE b.sigterm + 1,
                         !.grace = "armed", !.graceLeft = GracePeriod,
                         !.isReady = FALSE, !.logStream = FALSE, !.stops = b.stops + 1]
          ELSE [b EXCEPT !.logStream = FALSE, !.stops = b.stops + 1] ]

\* a start that throws on the timeout without calling stopPythonBackend
StartupFailsBare(p, b) ==
  [ p |-> p, b |-> [b EXCEPT !.pc = "failed"] ]

\* startPythonBackend after pollHealth returned false: stopPythonBackend, throw
StartupFails(p, b) ==
  [ p |-> Stopped(p, b).p, b |-> [Stopped(p, b).b EXCEPT !.pc = "failed"] ]

\* pollHealth, the head of its loop: the next request, or return false
PollLoop ==
  /\ bridge.pc = "polling"
  /\ IF bridge.elapsed < StartupTimeout
     THEN /\ bridge' = [bridge EXCEPT !.pc = "fetching", !.health = "none"]
          /\ UNCHANGED pythonProcess
     ELSE /\ pythonProcess' = StartupFails(pythonProcess, bridge).p
          /\ bridge' = StartupFails(pythonProcess, bridge).b
  /\ UNCHANGED <<appVars, streamVars, plain>>

\* the worker answers the /health request; the answer is on its way
HealthSent(ok) ==
  /\ bridge.pc = "fetching"
  /\ bridge.health = "none"
  /\ Alive
  /\ bridge' = [bridge EXCEPT !.health = IF ok THEN "ok" ELSE "not ok"]
  /\ UNCHANGED <<appVars, streamVars, plain, pythonProcess>>

\* await fetch resolves: on response.ok pollHealth returns true and
\* startPythonBackend sets isReady; otherwise the loop sleeps
HealthReceived ==
  /\ bridge.pc = "fetching"
  /\ bridge.health # "none"
  /\ bridge' = IF bridge.health = "ok"
               THEN [bridge EXCEPT !.pc = "started", !.health = "none", !.isReady = TRUE, !.everReady = TRUE]
               ELSE [bridge EXCEPT !.pc = "sleeping", !.health = "none"]
  /\ UNCHANGED <<appVars, streamVars, plain, pythonProcess>>

\* await fetch rejects: the server is not listening
HealthRejects ==
  /\ bridge.pc = "fetching"
  /\ bridge.health = "none"
  /\ bridge' = [bridge EXCEPT !.pc = "sleeping"]
  /\ UNCHANGED <<appVars, streamVars, plain, pythonProcess>>

\* time passes during pollHealth; the sleep of the loop lasts one tick
StartupTick ==
  /\ bridge.pc \in {"fetching", "sleeping"}
  /\ bridge.elapsed <= StartupTimeout
  /\ bridge' = [bridge EXCEPT !.elapsed = bridge.elapsed + 1,
                              !.pc = IF bridge.pc = "sleeping" THEN "polling" ELSE bridge.pc]
  /\ UNCHANGED <<appVars, streamVars, plain, pythonProcess>>

\* app.on('before-quit'): stopPythonBackend
StopBackend ==
  /\ bridge.stops < MaxStops
  /\ pythonProcess' = Stopped(pythonProcess, bridge).p
  /\ bridge' = Stopped(pythonProcess, bridge).b
  /\ UNCHANGED <<appVars, streamVars, plain>>

GraceTick ==
  /\ bridge.grace = "armed"
  /\ bridge.graceLeft > 0
  /\ bridge' = [bridge EXCEPT !.graceLeft = bridge.graceLeft - 1]
  /\ UNCHANGED <<appVars, streamVars, plain, pythonProcess>>

\* the timer of stopPythonBackend fires: if (!proc.killed) proc.kill('SIGKILL')
GraceFires ==
  /\ bridge.grace = "armed"
  /\ bridge.graceLeft = 0
  /\ IF ~bridge.killed /\ Alive
     THEN /\ bridge' = [bridge EXCEPT !.grace = "fired", !.sigkill = bridge.sigkill + 1]
          /\ pythonProcess' = [pythonProcess EXCEPT !.exited = TRUE]
     ELSE /\ bridge' = [bridge EXCEPT !.grace = "fired"]
          /\ UNCHANGED pythonProcess
  /\ UNCHANGED <<appVars, streamVars, plain>>

WorkerNext ==
  \/ WorkerSpawn
  \/ WorkerExit
  \/ ExitHandler
  \/ PollLoop
  \/ \E ok \in BOOLEAN : HealthSent(ok)
  \/ HealthReceived
  \/ HealthRejects
  \/ StartupTick
  \/ StopBackend
  \/ GraceTick
  \/ GraceFires

\* timers fire
WorkerFairness ==
  /\ WF_vars(GraceTick)
  /\ WF_vars(GraceFires)

SpecWorker == Init /\ [][WorkerNext]_vars /\ WorkerFairness

\* Overlapping invocations of handleExportAll: exportingRef is read before
\* "await checkCanProcess()" and set after it, so a second click in between
\* starts a second loop over the same closure. The clicks of these runs come
\* before the last file is added.
RaceExportClick(k) == nextId <= RaceSongs /\ ExportClick(k)

RaceNext ==
  \/ AddSongs(1, RaceSongs)
  \/ \E id \in 1..RaceSongs : LookupResolve(id, "untagged")
  \/ \E id \in 1..RaceSongs : RetrySong(id)
  \/ ProcessNext
  \/ SeparationResolve
  \/ TranscriptionResolve(<<W("a", 1, TRUE), W("b", 3, FALSE)>>)
  \/ \E k \in 1..RaceExportRuns : RaceExportClick(k)
  \/ \E k \in 1..RaceExportRuns : ExportCheckResolve(k, "ok")
  \/ \E k \in 1..RaceExportRuns : ExportDialogResolve(k, TRUE)
  \/ \E k \in 1..RaceExportRuns : CensorReject(k)

SpecRace == Init /\ [][RaceNext]_vars

\* The same race while only the first file has been added: both runs hold
\* a closure with that one item, which is retried after the first run failed
\* and is overwritten by the second run while it waits in the queue.
StallExportClick(k) == nextId = 2 /\ ExportClick(k)

StallNext ==
  \/ AddSongs(1, RaceSongs)
  \/ \E id \in 1..RaceSongs : LookupResolve(id, "untagged")
  \/ \E id \in 1..RaceSongs : RetrySong(id)
  \/ ProcessNext
  \/ SeparationResolve
  \/ TranscriptionResolve(<<W("a", 1, TRUE), W("b", 3, FALSE)>>)
  \/ \E k \in 1..RaceExportRuns : StallExportClick(k)
  \/ \E k \in 1..RaceExportRuns : ExportCheckResolve(k, "ok")
  \/ \E k \in 1..RaceExportRuns : ExportDialogResolve(k, TRUE)
  \/ \E k \in 1..RaceExportRuns : CensorReject(k)

\* React runs the queue effect after every render that changed one of its
\* dependencies, and a streaming call of the worker settles
StallFairness ==
  /\ WF_vars(ProcessNext)
  /\ WF_vars(SeparationResolve)
  /\ WF_vars(TranscriptionResolve(<<W("a", 1, TRUE), W("b", 3, FALSE)>>))

SpecStall == Init /\ [][StallNext]_vars /\ StallFairness

\* ------------------------------------------------------------------------
\* The queue and the pipeline alone, with calls that settle
\* ------------------------------------------------------------------------
SettleNext ==
  \/ \E n \in 1..MaxBatch : AddSongs(n, MaxSongs)
  \/ \E id \in 1..MaxSongs, metadata \in MetadataResults : LookupResolve(id, metadata)
  \/ \E id \in 1..MaxSongs : RemoveSong(id)
  \/ ClearAll
  \/ \E id \in 1..MaxSongs : RetrySong(id)
  \/ ProcessNext
  \/ \E found \in BOOLEAN : LyricsResolve(found)
  \/ LyricsReject
  \/ SeparationResolve
  \/ SeparationReject
  \/ \E words \in TranscriptionResults : TranscriptionResolve(words)
  \/ TranscriptionReject

\* React runs the queue effect after a render that changed its dependencies;
\* every IPC call of the renderer settles: the handlers of main answer, and
\* fetchBackend and fetchBackendStreaming give up on their timeouts
SettleFairness ==
  /\ WF_vars(ProcessNext)
  /\ \A id \in 1..MaxSongs : SF_vars(\E metadata \in MetadataResults : LookupResolve(id, metadata))
  /\ WF_vars((\E found \in BOOLEAN : LyricsResolve(found)) \/ LyricsReject)
  /\ WF_vars(SeparationResolve \/ SeparationReject)
  /\ WF_vars((\E words \in TranscriptionResults : TranscriptionResolve(words)) \/ TranscriptionReject)

SpecSettle == Init /\ [][SettleNext]_vars /\ SettleFairness

\* ------------------------------------------------------------------------
\* Properties
\* ------------------------------------------------------------------------
Song(id) == FindSong(state.songs, id)

\* C1: in every reachable state at most one item has a status in
\* {fetching_lyrics, separating, transcribing}
AtMostOneActive ==
  Cardinality({ i \in DOMAIN state.songs : state.songs[i].status \in ActiveStatuses }) <= 1

\* one item is in the pipeline while another one waits in the admission queue
OneActiveOneWaiting ==
  /\ \E i \in DOMAIN state.songs : state.songs[i].status \in ActiveStatuses
  /\ Waiting(state) # {}

\* C2: while no item failed, was removed or was retried, items are admitted
\* in the order they were added (ids are handed out in that order), whatever
\* the order their metadata lookups complete in
FifoAdmission ==
  \A i, j \in DOMAIN hist.admitted : i < j => hist.admitted[i] < hist.admitted[j]

\* C3: a retried item is admitted only after every item that was waiting in
\* the admission queue when it was retried
TailRetry ==
  [][ \A id \in AllIds :
        (state.currentlyProcessingId = NoId /\ state'.currentlyProcessingId = id)
          => hist.ahead[id] \cap Waiting(state) = {} ]_vars

\* C4: RETRY_SONG on an item in error leaves it pending with no words, no
\* progress and every derived artifact path null
RetryClearsState ==
  [][ \A id \in AllIds :
        (StatusOf(state.songs, id) = "error" /\ StatusOf(state'.songs, id) = "pending")
          => LET s == FindSong(state'.songs, id)
             IN /\ s.words = <<>>
                /\ s.separationProgress = null /\ s.transcriptionProgress = null
                /\ s.vocalsPath = null /\ s.accompanimentPath = null
                /\ s.previewFilePath = null /\ s.censoredFilePath = null ]_vars

\* C5: the result of a preview request that an edit started (the debounced
\* path) and a later edit of the same item superseded is never written to
\* previewFilePath
StalePreviewDiscard ==
  [][ \A r \in previews :
        (r.requestId # 0 /\ r.superseded /\ r \notin previews' /\ HasSong(state.songs, r.id) /\ HasSong(state'.songs, r.id))
          => FindSong(state'.songs, r.id).previewFilePath = FindSong(state.songs, r.id).previewFilePath ]_vars

WordLevelMutations ==
  {"TOGGLE_PROFANITY", "SET_WORD_CENSOR_TYPE", "SET_SONG_CENSOR_TYPE", "ADD_MANUAL_WORD", "REMOVE_WORD"}

BothOrNeither ==
  /\ [](\A i \in DOMAIN state.songs :
          (state.songs[i].vocalsPath = null) <=> (state.songs[i].accompanimentPath = null))
  /\ [][ (proc.pc = "separating" /\ proc'.pc = "transcribing" /\ HasSong(state'.songs, proc.songId))
           => /\ FindSong(state'.songs, proc.songId).vocalsPath # null
              /\ FindSong(state'.songs, proc.songId).accompanimentPath # null ]_vars

\* separation has completed for the item in the pipeline and left both stems
SeparatedBothStems ==
  /\ proc.pc = "transcribing"
  /\ HasSong(state.songs, proc.songId)
  /\ Song(proc.songId).vocalsPath # null
  /\ Song(proc.songId).accompanimentPath # null

\* C8: an item in status error has vocalsPath and accompanimentPath null
ErrorHasNoStems ==
  \A i \in DOMAIN state.songs :
    state.songs[i].status = "error"
      => state.songs[i].vocalsPath = null /\ state.songs[i].accompanimentPath = null

\* C9: the idle timeout aborts a streaming call only when the time since its
\* start or since its last heartbeat record has reached the idle timeout;
\* the total time of the call does not matter
HeartbeatsDefer ==
  call.outcome = "aborted" => clock.silence >= IdleTimeout

\* a call still reading after more than two idle timeouts in total
LongCallAlive ==
  /\ call.phase = "reading"
  /\ clock.total = MaxElapsed
  /\ clock.total > 2 * IdleTimeout

EndWithoutResultFails ==
  /\ clock.ended => (call.phase = "failed" /\ call.outcome = "ended without a result")
  /\ call.phase = "returned" => clock.resultSeen

\* the body ended after other records had arrived, none of them a result
EndedAfterOtherRecords ==
  /\ clock.ended
  /\ clock.otherSince
  /\ ~clock.resultSeen

\* C12: an invocation of the streaming request makes exactly one HTTP
\* request, whatever its outcome
SingleShot ==
  call.phase # "idle" => call.requests = 1

\* a streaming call that failed to connect and has settled
ConnectionFailedOnce ==
  /\ call.phase = "failed"
  /\ call.outcome = "connection failed"

\* C13: a plain request makes at most 3 attempts; every attempt after the
\* first follows a network failure of the one before and is issued while the
\* worker is alive; a response of any status ends the call; the call fails
\* only after a network failure
PlainRetryPolicy ==
  /\ Len(plain.issued) <= maxRetries + 1
  /\ \A i \in 2..Len(plain.issued) : plain.issued[i]
  /\ plain.last = "response" => plain.phase = "returned"
  /\ plain.phase = "failed" => plain.last = "network failure"
  /\ (plain.phase \in {"inflight", "backoff"} /\ Len(plain.issued) > 1) => plain.last = "network failure"

\* C14: when no job is active and the head of the queue is an item that is
\* gone or not pending, the next step removes that head and starts no job;
\* and a pending item of the queue is eventually admitted (or stops being
\* pending)
NoStallOnDeadHead ==
  /\ [][ (~isProcessingRef /\ state.currentlyProcessingId = NoId /\ DeadHead(state))
           => /\ ~Includes(state'.processingQueue, state.processingQueue[1])
              /\ state'.currentlyProcessingId = NoId
              /\ ~isProcessingRef'
              /\ proc' = proc
              /\ state'.songs = state.songs ]_vars
  /\ \A id \in 1..RaceSongs :
        (id \in Waiting(state)) ~> (state.currentlyProcessingId = id \/ StatusOf(state.songs, id) # "pending")

\* a dead head was just discarded while a pending item waits in the queue
DeadHeadSkipped ==
  /\ hist.skipped
  /\ Waiting(state) # {}

\* C15: the step in which separation or transcription of item X fails
\* changes, among the items, only status and errorMessage of X; it leaves
\* no job active and every other pending item in the queue; and whenever no
\* job is active and the head of the queue is pending, the next step admits it
FailureIsolation ==
  [][ /\ ( /\ proc.pc \in {"separating", "transcribing"}
           /\ proc'.pc = "idle"
           /\ StatusOf(state'.songs, proc.songId) \in {"error", "absent"} )
        => /\ Len(state'.songs) = Len(state.songs)
           /\ \A i \in DOMAIN state.songs :
                IF state.songs[i].id = proc.songId
                THEN /\ state'.songs[i].errorMessage # null
                     /\ state'.songs[i] = [state.songs[i] EXCEPT !.status = "error",
                                             !.errorMessage = state'.songs[i].errorMessage]
                ELSE state'.songs[i] = state.songs[i]
           /\ state'.currentlyProcessingId = NoId
           /\ ~isProcessingRef'
           /\ Waiting(state') = Waiting(state) \ {proc.songId}
      /\ (~isProcessingRef /\ state.currentlyProcessingId = NoId /\ Len(state.processingQueue) > 0 /\ ~DeadHead(state))
        => state'.currentlyProcessingId = state.processingQueue[1] ]_vars

\* a stage of one item has just failed while another pending item waits
FailedWhileAnotherWaits ==
  /\ state.currentlyProcessingId = NoId
  /\ \E i \in DOMAIN state.songs :
        /\ state.songs[i].status = "error"
        /\ state.songs[i].errorMessage \in {"Separation error", "Transcription error"}
        /\ Waiting(state) \ {state.songs[i].id} # {}

\* C16: isProcessingRef is set by the step that admits an item and by no
\* other; it is cleared only by the step that settles the run of that item
\* (the item ready or in error, no current item, the item out of the queue);
\* no item is admitted while it is set
ExclusionFlagLifetime ==
  [][ /\ (state.currentlyProcessingId = NoId /\ state'.currentlyProcessingId # NoId)
        => (~isProcessingRef /\ isProcessingRef')
      /\ (~isProcessingRef /\ isProcessingRef')
        => /\ state.currentlyProcessingId = NoId
           /\ state'.currentlyProcessingId # NoId
           /\ StatusOf(state.songs, state'.currentlyProcessingId) = "pending"
           /\ proc'.songId = state'.currentlyProcessingId
      /\ (isProcessingRef /\ ~isProcessingRef')
        => /\ proc.pc # "idle"
           /\ proc'.pc = "idle"
           /\ StatusOf(state'.songs, proc.songId) \in {"ready", "error", "absent"}
           /\ state'.currentlyProcessingId = NoId
           /\ ~Includes(state'.processingQueue, proc.songId) ]_vars

\* the flag has been released after a run that ended ready, and the next
\* pending item can be admitted
FlagReleasedAfterRun ==
  /\ ~isProcessingRef
  /\ Waiting(state) # {}
  /\ \E i \in DOMAIN state.songs : state.songs[i].status = "ready" /\ Len(state.songs[i].words) > 0

\* C17: a run has a transcription request only after its separation
\* resolved, and the request carries the vocals path of that result; a run
\* whose separation fails ends without a transcription request
StageOrdering ==
  /\ [] /\ proc.pc = "transcribing"
             => /\ proc.separated = SeparationResult(proc.songId).vocals_path
                /\ proc.vocals_path = proc.separated
        /\ proc.pc # "transcribing" => proc.vocals_path = null
  /\ [][ /\ (proc.pc # "transcribing" /\ proc'.pc = "transcribing")
           => /\ proc.pc = "separating"
              /\ StatusOf(state'.songs, proc.songId) # "absent"
                   => FindSong(state'.songs, proc.songId).vocalsPath = proc'.vocals_path
         /\ (proc.pc = "separating" /\ proc'.pc # "separating")
           => \/ proc'.pc = "transcribing" /\ proc'.separated # null
              \/ proc'.pc = "idle" /\ StatusOf(state'.songs, proc.songId) \in {"error", "absent"} ]_vars

\* the transcription of the second file is under way with its own vocals
\* path, after the first file was separated too
SecondRunTranscribing ==
  /\ proc.pc = "transcribing"
  /\ proc.songId = 2
  /\ proc.vocals_path = SeparationResult(2).vocals_path
  /\ \E i \in DOMAIN state.songs : state.songs[i].id = 1 /\ state.songs[i].vocalsPath # null

WordListMutations == {"TOGGLE_PROFANITY", "SET_WORD_CENSOR_TYPE", "ADD_MANUAL_WORD", "REMOVE_WORD"}

ExportSendsFinalWords ==
  [][ \A k \in AllRuns :
        ( /\ exportRuns'[k].pc = "censor"
          /\ exportRuns[k].pc # "censor" \/ exportRuns'[k].idx # exportRuns[k].idx
          /\ HasSong(state'.songs, exportRuns'[k].songs[exportRuns'[k].idx].id) )
          => exportRuns'[k].songs[exportRuns'[k].idx].censorWords
               = CensorWords(FindSong(state'.songs, exportRuns'[k].songs[exportRuns'[k].idx].id)) ]_vars

ExportErrors == {"Censor error", "History error"}

\* C20: the step in which the export of an item fails (censorAudio or the
\* history entry rejects, and the item gets the message of that failure)
\* leaves the item in error with the words, duration and language it had
ExportFailureKeepsTranscript ==
  [][ \A k \in AllRuns :
        LET id == exportRuns[k].songs[exportRuns[k].idx].id
        IN ( /\ exportRuns[k].pc \in {"censor", "history"}
             /\ HasSong(state.songs, id)
             /\ HasSong(state'.songs, id)
             /\ FindSong(state'.songs, id).errorMessage \in ExportErrors
             /\ FindSong(state'.songs, id).errorMessage # FindSong(state.songs, id).errorMessage )
             => /\ FindSong(state'.songs, id).status = "error"
                /\ FindSong(state'.songs, id).words = FindSong(state.songs, id).words
                /\ FindSong(state'.songs, id).duration = FindSong(state.songs, id).duration
                /\ FindSong(state'.songs, id).language = FindSong(state.songs, id).language ]_vars

\* an item whose export request failed, in error with its transcript
ExportFailedWithTranscript ==
  \E i \in DOMAIN state.songs :
    /\ state.songs[i].status = "error"
    /\ state.songs[i].errorMessage = "Censor error"
    /\ Len(state.songs[i].words) > 0
    /\ state.songs[i].duration > 0

\* C21: whenever a run of Export All dispatches START_EXPORT for an item of
\* the list, the status of that item at that moment is ready or completed
ExportOnlyFromReady ==
  [][ \A k \in AllRuns :
        LET id == exportRuns'[k].songs[exportRuns'[k].idx].id
        IN ( /\ exportRuns'[k].pc = "censor"
             /\ exportRuns[k].pc # "censor" \/ exportRuns'[k].idx # exportRuns[k].idx
             /\ HasSong(state.songs, id) )
             => StatusOf(state.songs, id) \in {"ready", "completed"} ]_vars

\* C22: the result of a preview request that was in flight when the view of
\* its item was closed is never written to previewFilePath
ClosedPreviewDiscard ==
  [][ \A r \in previews :
        (r.closed /\ r \notin previews' /\ HasSong(state.songs, r.id) /\ HasSong(state'.songs, r.id))
          => FindSong(state'.songs, r.id).previewFilePath = FindSong(state.songs, r.id).previewFilePath ]_vars

\* C23: once a streaming call has read a non-empty line that is not valid
\* JSON, the call has failed
MalformedSurfaced ==
  clock.malformed => call.phase = "failed"

\* C24: once the exit event of the worker has been handled, isReady is false
\* and stays false
CrashFlipsReadiness ==
  bridge.exitObserved => ~bridge.isReady

ForcedKillAfterGrace ==
  bridge.grace = "fired" => pythonProcess.exited

\* C27: stop called while the handle is null sends no signal and leaves the
\* handle null, isReady false and the log stream closed
StopIdempotent ==
  [][(~pythonProcess.handle /\ bridge'.stops > bridge.stops)
       => /\ ~pythonProcess'.handle
          /\ ~bridge'.isReady
          /\ ~bridge'.logStream
          /\ bridge'.sigterm = bridge.sigterm
          /\ bridge'.sigkill = bridge.sigkill]_vars

\* C28: when the lyrics lookup of a run settles, failed or not, the run is at
\* separateAudio and its item, if still listed, is separating with no error;
\* an item enters fetching_lyrics only with artist and title
LyricsBestEffort ==
  /\ [][(proc.pc = "lyrics" /\ proc'.pc # "lyrics")
          => /\ proc'.pc = "separating"
             /\ proc'.songId = proc.songId
             /\ HasSong(state'.songs, proc.songId)
                  => /\ StatusOf(state'.songs, proc.songId) = "separating"
                     /\ FindSong(state'.songs, proc.songId).errorMessage = null]_vars
  /\ [][\A id \in Ids(state'.songs) :
          (StatusOf(state'.songs, id) = "fetching_lyrics" /\ StatusOf(state.songs, id) # "fetching_lyrics")
            => HasArtistAndTitle(FindSong(state.songs, id))]_vars

\* the lyrics lookup of a run has just failed and its item is separating
LyricsFailedRunContinues ==
  /\ hist.lastEdit.type = "lyrics lookup failed"
  /\ proc.pc = "separating"
  /\ HasSong(state.songs, proc.songId)
  /\ StatusOf(state.songs, proc.songId) = "separating"
  /\ FindSong(state.songs, proc.songId).errorMessage = null

\* the edits of the panel that clear the preview
QualifyingEdits == {"TOGGLE_PROFANITY", "SET_WORD_CENSOR_TYPE", "SET_SONG_CENSOR_TYPE", "ADD_MANUAL_WORD"}

\* C29: after a qualifying edit of the open item, ready, with a profane word
\* and no preview request in flight, the debounce timer of a preview request
\* for it is pending
EditArmsPreview ==
  \A id \in Ids(state.songs) :
    ( /\ hist.lastEdit.type \in QualifyingEdits
      /\ hist.lastEdit.songId = id
      /\ state.expandedSongId = id
      /\ StatusOf(state.songs, id) = "ready"
      /\ CensorWords(FindSong(state.songs, id)) # <<>>
      /\ ~FindSong(state.songs, id).isGeneratingPreview
      /\ \A r \in previews : r.id # id )
    => (debounce.armed /\ debounce.id = id)

\* C30: a pending debounce timer is the only one and carries the profane-word
\* list of the open item as it is now; an edit that arrives while a timer is
\* pending leaves one pending; the request the timer issues when it fires
\* carries the list as of the last edit, and no timer is pending after it
DebounceRestart ==
  /\ [](debounce.armed =>
          /\ state.expandedSongId = debounce.id
          /\ HasSong(state.songs, debounce.id)
          /\ debounce.censorWords = CensorWords(FindSong(state.songs, debounce.id)))
  /\ [][(/\ debounce.armed
         /\ hist'.lastEdit.type \in QualifyingEdits
         /\ CensorWords(FindSong(state'.songs, debounce.id)) # <<>>)
          => debounce'.armed]_vars
  /\ [][\A r \in previews' :
          (r.requestId # 0 /\ \A q \in previews : q.requestId # r.requestId) =>
            /\ debounce.armed
            /\ ~debounce'.armed
            /\ r.id = state.expandedSongId
            /\ r.censorWords = CensorWords(FindSong(state.songs, r.id))
            /\ \A q \in previews' : q.requestId # 0 /\ q.requestId \notin { p.requestId : p \in previews } => q = r]_vars

\* the request of a timer that edits had restarted is in flight
BurstRequestInFlight ==
  \E r \in previews : r.burst /\ ~r.superseded /\ Len(r.censorWords) = 2

\* C38: isReady is true only while pythonProcess holds a handle
ReadyImpliesHandle ==
  bridge.isReady => pythonProcess.handle

\* C33: isGeneratingPreview of an item is true only while a preview request
\* for the item is in flight
GeneratingTracksRequest ==
  \A i \in DOMAIN state.songs :
    state.songs[i].isGeneratingPreview => \E r \in previews : r.id = state.songs[i].id

\* C35: at most one invocation of handleExportAll is in its export loop
ExportAllMutualExclusion ==
  Cardinality({ k \in DOMAIN exportRuns : exportRuns[k].pc \in {"censor", "history"} }) <= 1

\* C36: a non-null currentlyProcessingId is the id of a listed item and the
\* head of processingQueue
ActiveIdWellFormed ==
  state.currentlyProcessingId # NoId =>
    /\ HasSong(state.songs, state.currentlyProcessingId)
    /\ Len(state.processingQueue) > 0
    /\ state.processingQueue[1] = state.currentlyProcessingId

\* C39: no step moves a completed item to error with the failure of the
\* history bookkeeping of its export
CompletedSurvivesBookkeeping ==
  [][\A id \in Ids(state.songs) \cap Ids(state'.songs) :
       (StatusOf(state.songs, id) = "completed" /\ StatusOf(state'.songs, id) # "completed")
         => FindSong(state'.songs, id).errorMessage # "History error"]_vars

\* C34: an item completed by an export, with its censoredFilePath, received
\* no word-level edit while the censorAudio call of that export was in flight
ExportPathIsCurrent ==
  \A k \in DOMAIN exportRuns :
    exportRuns[k].pc = "history" =>
      LET id == exportRuns[k].songs[exportRuns[k].idx].id
      IN ( /\ StatusOf(state.songs, id) = "completed"
           /\ FindSong(state.songs, id).censoredFilePath # null )
         => ~exportRuns[k].edited

AddedItemsQueuedOnce ==
  /\ \A id \in 1..MaxSongs :
       (HasSong(state.songs, id) /\ FindSong(state.songs, id).metadata = null)
         ~> (Includes(state.processingQueue, id) \/ ~HasSong(state.songs, id))
  /\ [](\A i, j \in DOMAIN state.processingQueue :
          state.processingQueue[i] = state.processingQueue[j] => i = j)
  /\ [][\A id \in Ids(state.songs) :
          lookups'[id] < lookups[id]
            => IF FindSong(state.songs, id).metadata = null
               THEN state'.processingQueue = Append(state.processingQueue, id)
               ELSE state'.processingQueue = state.processingQueue]_vars

\* the second of two lookups of one item has resolved after the item had been
\* admitted, and a later item waits in the queue
DuplicateLookupResolved ==
  \E id \in Ids(state.songs) :
    /\ lookups[id] = 0
    /\ FindSong(state.songs, id).metadata = "untagged"
    /\ FindSong(state.songs, id).status = "fetching_lyrics"
    /\ \E other \in Ids(state.songs) : other # id /\ Includes(state.processingQueue, other)

\* C37: when the body ends and what was received since the last newline is a
\* well-formed result record, the call returns that record
SentResultDelivered ==
  [][(call.phase = "reading" /\ clock'.ended /\ ~clock.ended /\ ParseLine(call.buffer) = "result")
       => (call'.phase = "returned" /\ call'.outcome = "result")]_vars

\* C32: the error of a failed call is reported only after the whole grace
\* delay; when the exit of the worker has been observed by then, the report
\* is the worker-crashed message, and when the worker is alive then, the
\* report is the message of the failure itself
CrashAttribution ==
  [][(plain.phase = "describing" /\ plain'.phase # "describing")
       => /\ plain.wait = DescribeDelay
          /\ plain'.phase = "thrown"
          /\ bridge.exitObserved => plain'.message = "Backend process crashed."
          /\ Alive => (plain'.message = plain.error /\ plain.error \in {"fetch failed", "detail"})]_vars

\* a call failed while the worker was alive, the worker exited and its exit
\* was observed during the delay, and the crash message has been reported
CrashedDuringGrace ==
  /\ plain.phase = "thrown"
  /\ plain.aliveAtFailure
  /\ bridge.exitObserved
  /\ plain.message = "Backend process crashed."

====
